---------------------------- MODULE Spec2Model ----------------------------
(***************************************************************************)
(* ProposalSnap (src/app.py): the palette engine extract_colors_from_logo  *)
(* and the request handlers that call it.                                  *)
(*                                                                         *)
(* The engine computes in Python floats (IEEE-754 binary64, round to       *)
(* nearest even) and truncates with int().  Truncation makes the last bit  *)
(* of a product visible in the hex digits, so the floats are modelled bit  *)
(* for bit: a float is a record [s, m, e] with value (-1)^s * m * 2^e,     *)
(* where m is 0 or a 53-bit integer held as base-2^14 limbs (the model     *)
(* checker's integers are 32 bits wide).                                   *)
(***************************************************************************)
EXTENDS Integers, Sequences, FiniteSets, TLC

(***************************************************************************)
(* Unbounded naturals as little-endian sequences of limbs.                 *)
(***************************************************************************)
LimbBits == 14
Base == 2^LimbBits

MaxOf(a, b) == IF a >= b THEN a ELSE b
MinOf(a, b) == IF a <= b THEN a ELSE b

RECURSIVE BigNorm(_)
BigNorm(a) ==
  IF Len(a) > 0 /\ a[Len(a)] = 0 THEN BigNorm(SubSeq(a, 1, Len(a) - 1)) ELSE a

RECURSIVE BigFromInt(_)
BigFromInt(n) == IF n = 0 THEN <<>> ELSE <<n % Base>> \o BigFromInt(n \div Base)

RECURSIVE BigToInt(_)
BigToInt(a) == IF a = <<>> THEN 0 ELSE Head(a) + Base * BigToInt(Tail(a))

Limb(a, i) == IF i >= 1 /\ i <= Len(a) THEN a[i] ELSE 0

\* a: limbs that may lie outside 0..Base-1 (sums, differences, products); c: carry in
RECURSIVE BigCarry(_, _)
BigCarry(a, c) ==
  IF a = <<>> THEN BigFromInt(c)
  ELSE LET t == Head(a) + c IN <<t % Base>> \o BigCarry(Tail(a), t \div Base)

BigAdd(a, b) ==
  BigCarry([i \in 1..MaxOf(Len(a), Len(b)) |-> Limb(a, i) + Limb(b, i)], 0)

\* a >= b
BigSub(a, b) ==
  BigNorm(BigCarry([i \in 1..MaxOf(Len(a), Len(b)) |-> Limb(a, i) - Limb(b, i)], 0))

RECURSIVE ColSum(_, _, _, _)
ColSum(a, b, k, i) ==
  IF i > Len(a) THEN 0 ELSE Limb(a, i) * Limb(b, k + 1 - i) + ColSum(a, b, k, i + 1)

\* a, b of at most 4 limbs each (two mantissas), so a column sum stays below 2^31
BigMul(a, b) ==
  IF a = <<>> \/ b = <<>> THEN <<>>
  ELSE BigNorm(BigCarry([k \in 1..(Len(a) + Len(b) - 1) |-> ColSum(a, b, k, 1)], 0))

BigShl(a, k) ==
  IF a = <<>> THEN <<>>
  ELSE [i \in 1..(k \div LimbBits) |-> 0]
         \o BigNorm(BigCarry([i \in 1..Len(a) |-> a[i] * 2^(k % LimbBits)], 0))

BigShr(a, k) ==
  LET q == k \div LimbBits
      r == k % LimbBits
  IN  IF q >= Len(a) THEN <<>>
      ELSE BigNorm([i \in 1..(Len(a) - q) |->
                      (a[i + q] \div 2^r) + (Limb(a, i + q + 1) % 2^r) * 2^(LimbBits - r)])

RECURSIVE BitLen(_)
BitLen(n) == IF n = 0 THEN 0 ELSE 1 + BitLen(n \div 2)

BigBitLen(a) == IF a = <<>> THEN 0 ELSE LimbBits * (Len(a) - 1) + BitLen(a[Len(a)])

RECURSIVE CmpFrom(_, _, _)
CmpFrom(a, b, i) ==
  IF i = 0 THEN 0
  ELSE IF a[i] > b[i] THEN 1
  ELSE IF a[i] < b[i] THEN -1
  ELSE CmpFrom(a, b, i - 1)

\* the sign of a - b, for normalised a and b
BigCmp(a, b) ==
  IF Len(a) > Len(b) THEN 1
  ELSE IF Len(a) < Len(b) THEN -1
  ELSE CmpFrom(a, b, Len(a))

BigOdd(a) == a # <<>> /\ a[1] % 2 = 1

\* A 53-bit mantissa as [hi, lo], hi * 2^27 + lo: the division works on the
\* two halves with machine integers.
LoBits == 27
LoBase == 2^LoBits

SplitHiLo(a) ==
  [hi |-> (Limb(a, 2) \div 2^(LoBits - LimbBits)) + Limb(a, 3) * 2
            + Limb(a, 4) * 2^(LimbBits + 1),
   lo |-> Limb(a, 1) + (Limb(a, 2) % 2^(LoBits - LimbBits)) * Base]

\* n more quotient bits of rem / d by restoring division, rem < d on entry:
\* the n bits as a number q, and the remainder left as hi, lo
RECURSIVE DivBits(_, _, _, _, _, _)
DivBits(rh, rl, dh, dl, n, acc) ==
  IF n = 0 THEN [q |-> acc, hi |-> rh, lo |-> rl]
  ELSE LET l2 == 2 * rl
           h2 == 2 * rh + (l2 \div LoBase)
           l3 == l2 % LoBase
       IN  IF h2 > dh \/ (h2 = dh /\ l3 >= dl)
           THEN DivBits(h2 - dh - (IF l3 < dl THEN 1 ELSE 0), (l3 - dl) % LoBase,
                        dh, dl, n - 1, 2 * acc + 1)
           ELSE DivBits(h2, l3, dh, dl, n - 1, 2 * acc)

\* the 56 quotient bits in two runs of 28, below the leading bit
DivQuot(lead, c1, c2) ==
  [q |-> BigNorm(<<c2.q % Base, c2.q \div Base, c1.q % Base, c1.q \div Base, lead>>),
   inexact |-> c2.hi # 0 \/ c2.lo # 0]

DivLow(lead, c1, y) ==
  DivQuot(lead, c1, DivBits(c1.hi, c1.lo, y.hi, y.lo, 2 * LimbBits, 0))

DivHigh(lead, r0, y) ==
  DivLow(lead, DivBits(r0.hi, r0.lo, y.hi, y.lo, 2 * LimbBits, 0), y)

\* the leading quotient bit: whether x >= y (x < 2 * y, both have 53 bits)
DivHiLo(x, y) ==
  IF x.hi > y.hi \/ (x.hi = y.hi /\ x.lo >= y.lo)
  THEN DivHigh(1, [hi |-> x.hi - y.hi - (IF x.lo < y.lo THEN 1 ELSE 0),
                   lo |-> (x.lo - y.lo) % LoBase], y)
  ELSE DivHigh(0, x, y)

\* floor(a * 2^56 / d) and whether a remainder is left, for 53-bit a and d
BigDivFrac(a, d) == DivHiLo(SplitHiLo(a), SplitHiLo(d))

(***************************************************************************)
(* Python floats.  [s, m, e] is (-1)^s * m * 2^e; m is <<>> (zero) or has  *)
(* exactly 53 bits.  Every value of the engine lies in the normal range.   *)
(***************************************************************************)
MantBits == 53

FZero == [s |-> 0, m |-> <<>>, e |-> 0]

\* rounding carried the mantissa q1 to 54 bits or not
PackCarry(s, q1, e) ==
  IF BigBitLen(q1) > MantBits
  THEN [s |-> s, m |-> BigShr(q1, 1), e |-> e + 1]
  ELSE [s |-> s, m |-> q1, e |-> e]

\* c: the sign of (the bits dropped below q) - (half a unit of q)
RoundUp(c, q, sticky) == c > 0 \/ (c = 0 /\ (sticky \/ BigOdd(q)))

\* q = big >> sh, sh > 0
PackRound(s, big, q, e, sticky, sh) ==
  PackCarry(s,
            IF RoundUp(BigCmp(BigShl(BigSub(big, BigShl(q, sh)), 1), BigShl(<<1>>, sh)),
                       q, sticky)
            THEN BigAdd(q, <<1>>) ELSE q,
            e + sh)

\* L: the bit length of big
PackLen(s, big, e, sticky, L) ==
  IF L = 0 THEN FZero
  ELSE IF L <= MantBits THEN [s |-> s, m |-> BigShl(big, MantBits - L), e |-> e + L - MantBits]
  ELSE PackRound(s, big, BigShr(big, L - MantBits), e, sticky, L - MantBits)

\* the float nearest to (-1)^s * big * 2^e, ties to even; sticky: the exact
\* value lies strictly above big * 2^e (a division left a remainder)
Pack(s, big, e, sticky) == PackLen(s, big, e, sticky, BigBitLen(big))

\* float(n) for an int n >= 0
FromInt(n) == Pack(0, BigFromInt(n), 0, FALSE)

FNeg(x) == IF x.m = <<>> THEN x ELSE [x EXCEPT !.s = 1 - x.s]

\* x * y
FMul(x, y) ==
  IF x.m = <<>> \/ y.m = <<>> THEN FZero
  ELSE Pack((x.s + y.s) % 2, BigMul(x.m, y.m), x.e + y.e, FALSE)

PackQuot(s, d, e) == Pack(s, d.q, e, d.inexact)

\* x / y, y # 0
FDiv(x, y) ==
  IF x.m = <<>> THEN FZero
  ELSE PackQuot((x.s + y.s) % 2, BigDivFrac(x.m, y.m), x.e - y.e - 56)

\* |a| - |b| with the sign of the larger; c: the sign of a - b
MagDiff(sa, a, sb, b, c) ==
  IF c >= 0 THEN [s |-> sa, m |-> BigSub(a, b)] ELSE [s |-> sb, m |-> BigSub(b, a)]

\* the exact sum of (-1)^sa * a and (-1)^sb * b as sign and magnitude
MagSum(sa, a, sb, b) ==
  IF sa = sb THEN [s |-> sa, m |-> BigAdd(a, b)] ELSE MagDiff(sa, a, sb, b, BigCmp(a, b))

PackSum(r, e0) == Pack(r.s, r.m, e0, FALSE)

\* x + y: the exact sum at the smaller exponent, rounded once
FAdd(x, y) ==
  IF x.m = <<>> THEN y
  ELSE IF y.m = <<>> THEN x
  ELSE PackSum(MagSum(x.s, BigShl(x.m, x.e - MinOf(x.e, y.e)),
                      y.s, BigShl(y.m, y.e - MinOf(x.e, y.e))),
               MinOf(x.e, y.e))

\* x - y
FSub(x, y) == FAdd(x, FNeg(y))

\* the sign of |x| - |y|: both mantissas have 53 bits, so the exponent decides first
FCmpMag(x, y) ==
  IF x.m = <<>> THEN (IF y.m = <<>> THEN 0 ELSE -1)
  ELSE IF y.m = <<>> THEN 1
  ELSE IF x.e > y.e THEN 1
  ELSE IF x.e < y.e THEN -1
  ELSE BigCmp(x.m, y.m)

\* the sign of x - y (a zero carries s = 0)
FCmp(x, y) ==
  IF x.s # y.s THEN (IF x.s = 1 THEN -1 ELSE 1)
  ELSE IF x.s = 0 THEN FCmpMag(x, y)
  ELSE FCmpMag(y, x)

\* x < y
FLt(x, y) == FCmp(x, y) < 0

\* x == y
FEq(x, y) == FCmp(x, y) = 0

\* Python's max(x, y) and min(x, y): the first argument wins a tie
FMax(x, y) == IF FLt(x, y) THEN y ELSE x
FMin(x, y) == IF FLt(y, x) THEN y ELSE x

\* int(x) for x >= 0: truncation (the results here are below 2^14)
FTrunc(x) ==
  IF x.m = <<>> THEN 0
  ELSE IF x.e >= 0 THEN BigToInt(BigShl(x.m, x.e))
  ELSE BigToInt(BigShr(x.m, -x.e))

\* x - int(x) for x >= 0
Frac(a) == FSub(a, FromInt(FTrunc(a)))

\* frac: fmod(|x|, 1.0); a negative x with a remainder gets -frac + 1.0
Mod1Wrap(s, frac) ==
  IF s = 0 \/ frac.m = <<>> THEN frac
  ELSE FAdd(FNeg(frac), [s |-> 0, m |-> <<0, 0, 0, 1024>>, e |-> -52])

\* x % 1.0
FMod1(x) == IF x.m = <<>> THEN x ELSE Mod1Wrap(x.s, Frac([x EXCEPT !.s = 0]))

\* the float a decimal literal n/d denotes (the nearest float to it)
Dec(n, d) == FDiv(FromInt(n), FromInt(d))

\* the float literals of the engine, written out (each is the float nearest to
\* the decimal, see LiteralsNearest)
Lit_1    == [s |-> 0, m |-> <<0, 0, 0, 1024>>, e |-> -52]
Lit_2    == [s |-> 0, m |-> <<0, 0, 0, 1024>>, e |-> -51]
Lit_4    == [s |-> 0, m |-> <<0, 0, 0, 1024>>, e |-> -50]
Lit_6    == [s |-> 0, m |-> <<0, 0, 0, 1536>>, e |-> -50]
Lit_255  == [s |-> 0, m |-> <<0, 0, 0, 2040>>, e |-> -45]
Lit_0_08 == [s |-> 0, m |-> <<5243, 7864, 11796, 1310>>, e |-> -56]
Lit_0_1  == [s |-> 0, m |-> <<6554, 9830, 6553, 1638>>, e |-> -56]
Lit_0_12 == [s |-> 0, m |-> <<7864, 11796, 1310, 1966>>, e |-> -56]
Lit_0_2  == [s |-> 0, m |-> <<6554, 9830, 6553, 1638>>, e |-> -55]
Lit_0_3  == [s |-> 0, m |-> <<13107, 3276, 13107, 1228>>, e |-> -54]
Lit_0_6  == [s |-> 0, m |-> <<13107, 3276, 13107, 1228>>, e |-> -53]
Lit_0_8  == [s |-> 0, m |-> <<6554, 9830, 6553, 1638>>, e |-> -53]
Lit_1_1  == [s |-> 0, m |-> <<6554, 9830, 6553, 1126>>, e |-> -52]
Lit_1_2  == [s |-> 0, m |-> <<13107, 3276, 13107, 1228>>, e |-> -52]
Lit_1_4  == [s |-> 0, m |-> <<9830, 6553, 9830, 1433>>, e |-> -52]

LiteralsNearest ==
  /\ Lit_1 = FromInt(1)
  /\ Lit_2 = FromInt(2)
  /\ Lit_4 = FromInt(4)
  /\ Lit_6 = FromInt(6)
  /\ Lit_255 = FromInt(255)
  /\ Lit_0_08 = Dec(8, 100)
  /\ Lit_0_1 = Dec(1, 10)
  /\ Lit_0_12 = Dec(12, 100)
  /\ Lit_0_2 = Dec(2, 10)
  /\ Lit_0_3 = Dec(3, 10)
  /\ Lit_0_6 = Dec(6, 10)
  /\ Lit_0_8 = Dec(8, 10)
  /\ Lit_1_1 = Dec(11, 10)
  /\ Lit_1_2 = Dec(12, 10)
  /\ Lit_1_4 = Dec(14, 10)

(***************************************************************************)
(* colorsys, as extract_colors_from_logo calls it.                         *)
(***************************************************************************)
\* colorsys.rgb_to_hsv(r, g, b) on floats
HsvHue(r, g, maxc, rc, gc, bc) ==
  FMod1(FDiv(IF FEq(r, maxc) THEN FSub(bc, gc)
             ELSE IF FEq(g, maxc) THEN FSub(FAdd(Lit_2, rc), bc)
             ELSE FSub(FAdd(Lit_4, gc), rc),
             Lit_6))

HsvChroma(r, g, b, maxc, rangec) ==
  [h |-> HsvHue(r, g, maxc, FDiv(FSub(maxc, r), rangec), FDiv(FSub(maxc, g), rangec),
                FDiv(FSub(maxc, b), rangec)),
   s |-> FDiv(rangec, maxc),
   v |-> maxc]

HsvRange(r, g, b, maxc, minc) ==
  IF FEq(minc, maxc) THEN [h |-> FZero, s |-> FZero, v |-> maxc]
  ELSE HsvChroma(r, g, b, maxc, FSub(maxc, minc))

rgb_to_hsv(r, g, b) == HsvRange(r, g, b, FMax(FMax(r, g), b), FMin(FMin(r, g), b))

RGB(x, y, z) == [r |-> x, g |-> y, b |-> z]

\* i = i % 6 picks the sector
HsvPick(k, v, p, q, t) ==
  CASE k = 0 -> RGB(v, t, p)
    [] k = 1 -> RGB(q, v, p)
    [] k = 2 -> RGB(p, v, t)
    [] k = 3 -> RGB(p, q, v)
    [] k = 4 -> RGB(t, p, v)
    [] k = 5 -> RGB(v, p, q)

\* p, q, t from f
HsvMix(s, v, i, f) ==
  HsvPick(i % 6, v,
          FMul(v, FSub(Lit_1, s)),
          FMul(v, FSub(Lit_1, FMul(s, f))),
          FMul(v, FSub(Lit_1, FMul(s, FSub(Lit_1, f)))))

\* i = int(h * 6.0), f = h * 6.0 - i
HsvSector(s, v, h6, i) == HsvMix(s, v, i, FSub(h6, FromInt(i)))

HsvScaled(s, v, h6) == HsvSector(s, v, h6, FTrunc(h6))

\* colorsys.hsv_to_rgb(h, s, v) on floats
hsv_to_rgb(h, s, v) ==
  IF s.m = <<>> THEN RGB(v, v, v) ELSE HsvScaled(s, v, FMul(h, Lit_6))

(***************************************************************************)
(* Hex strings are sequences of one-character strings.                     *)
(***************************************************************************)
HexLower == <<"0","1","2","3","4","5","6","7","8","9","a","b","c","d","e","f">>

RECURSIVE HexDigits(_)
HexDigits(n) ==
  IF n < 16 THEN <<HexLower[n + 1]>> ELSE HexDigits(n \div 16) \o <<HexLower[(n % 16) + 1]>>

\* f"{n:02x}": lowercase hex, zero-padded to width 2, wider when n needs it
Fmt02x(n) ==
  IF n < 0 THEN <<"-">> \o HexDigits(-n)
  ELSE IF n < 16 THEN <<"0">> \o HexDigits(n)
  ELSE HexDigits(n)

HexUpper == <<"0","1","2","3","4","5","6","7","8","9","A","B","C","D","E","F">>

\* the same digits in upper case, as "02X" writes them
ToUpperHex(str) ==
  [i \in DOMAIN str |->
     IF \E j \in DOMAIN HexLower : HexLower[j] = str[i]
     THEN HexUpper[CHOOSE j \in DOMAIN HexLower : HexLower[j] = str[i]]
     ELSE str[i]]

\* faulty variant of HexOfFloats: the derived colours formatted with "02X"
HexOfFloats_upper(rgb) ==
  ToUpperHex(Fmt02x(FTrunc(FMul(rgb.r, Lit_255)))
               \o Fmt02x(FTrunc(FMul(rgb.g, Lit_255)))
               \o Fmt02x(FTrunc(FMul(rgb.b, Lit_255))))

\* f"{int(r*255):02x}{int(g*255):02x}{int(b*255):02x}" for floats r, g, b
HexOfFloats(rgb) ==
  Fmt02x(FTrunc(FMul(rgb.r, Lit_255)))
    \o Fmt02x(FTrunc(FMul(rgb.g, Lit_255)))
    \o Fmt02x(FTrunc(FMul(rgb.b, Lit_255)))

(***************************************************************************)
(* The palette engine.                                                     *)
(***************************************************************************)
PaletteKeys ==
  {"primary", "secondary", "accent", "dark", "light", "textDark", "textLight", "textMuted"}

\* faulty variant of default_colors: the primary written in lower case
default_colors_lowercase ==
  [primary   |-> <<"1","e","2","7","6","1">>,
   secondary |-> <<"C","A","D","C","F","C">>,
   accent    |-> <<"4","A","9","0","D","9">>,
   dark      |-> <<"0","F","1","6","2","9">>,
   light     |-> <<"F","8","F","9","F","A">>,
   textDark  |-> <<"1","A","1","A","2","E">>,
   textLight |-> <<"F","F","F","F","F","F">>,
   textMuted |-> <<"6","B","7","2","8","0">>]

default_colors ==
  [primary   |-> <<"1","E","2","7","6","1">>,
   secondary |-> <<"C","A","D","C","F","C">>,
   accent    |-> <<"4","A","9","0","D","9">>,
   dark      |-> <<"0","F","1","6","2","9">>,
   light     |-> <<"F","8","F","9","F","A">>,
   textDark  |-> <<"1","A","1","A","2","E">>,
   textLight |-> <<"F","F","F","F","F","F">>,
   textMuted |-> <<"6","B","7","2","8","0">>]

NearWhite == 240
NearBlack == 15

\* faulty variant of IsBackground: one channel beyond a threshold is enough
IsBackground_anyChannel(p) ==
  (p.r > NearWhite \/ p.g > NearWhite \/ p.b > NearWhite)
    \/ (p.r < NearBlack \/ p.g < NearBlack \/ p.b < NearBlack)

\* the pixel is dropped by the filter of lines 186-188
IsBackground(p) ==
  (p.r > NearWhite /\ p.g > NearWhite /\ p.b > NearWhite)
    \/ (p.r < NearBlack /\ p.g < NearBlack /\ p.b < NearBlack)

KeepPixel(p) == ~IsBackground(p)

\* faulty variant of Filtered: the fallback to the unfiltered pixels is missing
Filtered_noFallback(pixels) == SelectSeq(pixels, KeepPixel)

\* faulty variant of Filtered: the fallback tests the pixels, not the kept ones
Filtered_emptyInput(pixels) ==
  LET kept == SelectSeq(pixels, KeepPixel) IN IF pixels = <<>> THEN pixels ELSE kept

\* filtered, after "if not filtered: filtered = pixels"
Filtered(pixels) ==
  LET kept == SelectSeq(pixels, KeepPixel) IN IF kept = <<>> THEN pixels ELSE kept

\* a pixel is a record [r, g, b] of integers in 0..255; c names a channel
Channel(p, c) == CASE c = "r" -> p.r [] c = "g" -> p.g [] c = "b" -> p.b

RECURSIVE SumChannel(_, _)
SumChannel(pixels, c) ==
  IF pixels = <<>> THEN 0 ELSE Channel(Head(pixels), c) + SumChannel(Tail(pixels), c)

\* faulty variant of AvgChannel: int(sum / len + 0.5), the nearest integer
AvgChannel_rounded(filtered, c) ==
  FTrunc(FAdd(FDiv(FromInt(SumChannel(filtered, c)), FromInt(Len(filtered))),
              FDiv(Lit_1, Lit_2)))

\* int(sum(p[c] for p in filtered) / len(filtered)), len(filtered) > 0
AvgChannel(filtered, c) ==
  FTrunc(FDiv(FromInt(SumChannel(filtered, c)), FromInt(Len(filtered))))

Average(filtered) ==
  RGB(AvgChannel(filtered, "r"), AvgChannel(filtered, "g"), AvgChannel(filtered, "b"))

\* colorsys.rgb_to_hsv(r/255, g/255, b/255) of an integer pixel
PixelHSV(p) ==
  rgb_to_hsv(FDiv(FromInt(p.r), Lit_255),
             FDiv(FromInt(p.g), Lit_255),
             FDiv(FromInt(p.b), Lit_255))

\* faulty variant of MoreVivid: "if s >= best_sat and v > 0.2"
MoreVivid_orEqual(hsv, best_sat) == ~FLt(hsv.s, best_sat) /\ FLt(Lit_0_2, hsv.v)

\* faulty variant of MoreVivid: the floor on the value is missing
MoreVivid_noFloor(hsv, best_sat) == FLt(best_sat, hsv.s)

\* the pixel replaces the current best: "if s > best_sat and v > 0.2"
MoreVivid(hsv, best_sat) == FLt(best_sat, hsv.s) /\ FLt(Lit_0_2, hsv.v)

\* the loop of lines 201-205 over the pixels still to visit
RECURSIVE VividLoop(_, _, _)

\* one pixel of the loop, hsv its colorsys.rgb_to_hsv
VividStep(rest, best_sat, vivid, hsv) ==
  IF MoreVivid(hsv, best_sat)
  THEN VividLoop(Tail(rest), hsv.s, Head(rest))
  ELSE VividLoop(Tail(rest), best_sat, vivid)

VividLoop(rest, best_sat, vivid) ==
  IF rest = <<>> THEN vivid
  ELSE VividStep(rest, best_sat, vivid, PixelHSV(Head(rest)))

\* best_sat = 0, vivid = the average, then the loop
Vivid(filtered) == VividLoop(filtered, FZero, Average(filtered))

\* faulty variant of primary_hex: the primary formatted with "02X"
primary_hex_upper(vivid) == ToUpperHex(Fmt02x(vivid.r) \o Fmt02x(vivid.g) \o Fmt02x(vivid.b))

primary_hex(vivid) == Fmt02x(vivid.r) \o Fmt02x(vivid.g) \o Fmt02x(vivid.b)

\* faulty variant of SecondaryHSV: the value without min(1.0, ...)
SecondaryHSV_unclamped(c) ==
  [h |-> c.h,
   s |-> FMax(Lit_0_1, FMul(c.s, Lit_0_3)),
   v |-> FAdd(FMul(c.v, Lit_1_4), Lit_0_3)]

\* faulty variant of SecondaryHSV: the saturation without max(0.1, ...)
SecondaryHSV_noFloor(c) ==
  [h |-> c.h,
   s |-> FMul(c.s, Lit_0_3),
   v |-> FMin(Lit_1, FAdd(FMul(c.v, Lit_1_4), Lit_0_3))]

\* the (h, s, v) handed to colorsys.hsv_to_rgb for each derived colour
SecondaryHSV(c) ==
  [h |-> c.h,
   s |-> FMax(Lit_0_1, FMul(c.s, Lit_0_3)),
   v |-> FMin(Lit_1, FAdd(FMul(c.v, Lit_1_4), Lit_0_3))]

\* faulty variant of AccentHSV: the hue is h + 0.08 without "% 1.0"
AccentHSV_noWrap(c) ==
  [h |-> FAdd(c.h, Lit_0_08),
   s |-> FMin(Lit_1, FAdd(FMul(c.s, Lit_1_2), Lit_0_1)),
   v |-> FMin(Lit_1, FAdd(FMul(c.v, Lit_1_1), Lit_0_1))]

\* faulty variant of AccentHSV: the value is not clamped to 1.0
AccentHSV_unclamped(c) ==
  [h |-> FMod1(FAdd(c.h, Lit_0_08)),
   s |-> FMin(Lit_1, FAdd(FMul(c.s, Lit_1_2), Lit_0_1)),
   v |-> FAdd(FMul(c.v, Lit_1_1), Lit_0_1)]

AccentHSV(c) ==
  [h |-> FMod1(FAdd(c.h, Lit_0_08)),
   s |-> FMin(Lit_1, FAdd(FMul(c.s, Lit_1_2), Lit_0_1)),
   v |-> FMin(Lit_1, FAdd(FMul(c.v, Lit_1_1), Lit_0_1))]

\* faulty variant of DarkHSV: the saturation without min(0.6, ...)
DarkHSV_unclamped(c) ==
  [h |-> c.h, s |-> FMul(c.s, Lit_0_8), v |-> Lit_0_12]

\* faulty variant of DarkHSV: the value 0.2 in place of 0.12
DarkHSV_brighter(c) ==
  [h |-> c.h, s |-> FMin(Lit_0_6, FMul(c.s, Lit_0_8)), v |-> Lit_0_2]

DarkHSV(c) ==
  [h |-> c.h, s |-> FMin(Lit_0_6, FMul(c.s, Lit_0_8)), v |-> Lit_0_12]

HexOfHSV(c) == HexOfFloats(hsv_to_rgb(c.h, c.s, c.v))

\* faulty variant of PaletteAround: light written in lower case
PaletteAround_lowerLight(vivid, c) ==
  [primary   |-> primary_hex(vivid),
   secondary |-> HexOfHSV(SecondaryHSV(c)),
   accent    |-> HexOfHSV(AccentHSV(c)),
   dark      |-> HexOfHSV(DarkHSV(c)),
   light     |-> <<"f","8","f","9","f","a">>,
   textDark  |-> <<"1","A","1","A","2","E">>,
   textLight |-> <<"F","F","F","F","F","F">>,
   textMuted |-> <<"6","B","7","2","8","0">>]

\* lines 213-234, c the (h, s, v) of the vivid pixel
PaletteAround(vivid, c) ==
  [primary   |-> primary_hex(vivid),
   secondary |-> HexOfHSV(SecondaryHSV(c)),
   accent    |-> HexOfHSV(AccentHSV(c)),
   dark      |-> HexOfHSV(DarkHSV(c)),
   light     |-> <<"F","8","F","9","F","A">>,
   textDark  |-> <<"1","A","1","A","2","E">>,
   textLight |-> <<"F","F","F","F","F","F">>,
   textMuted |-> <<"6","B","7","2","8","0">>]

\* lines 207-234: the palette built around the vivid pixel
PaletteOf(vivid) == PaletteAround(vivid, PixelHSV(vivid))

(***************************************************************************)
(* extract_colors_from_logo.  A logo is what the file at logo_path holds:  *)
(* kind "image" with the samples list(img.getdata()) yields after          *)
(* convert("RGB") and resize((100, 100)), or a file Image.open / convert   *)
(* cannot read.  An outcome is [exc, val]: the exception that leaves the   *)
(* call ("none" when it returns) and the value returned.                   *)
(***************************************************************************)
NoPalette == [none |-> TRUE]

Image(pixels) == [kind |-> "image", pixels |-> pixels]
Unreadable(kind) == [kind |-> kind, pixels |-> <<>>]

\* what lines 181-183 raise for a file PIL cannot open or decode
DecodeError(kind) ==
  CASE kind = "missing"   -> "FileNotFoundError"
    [] kind = "empty"     -> "UnidentifiedImageError"
    [] kind = "not_image" -> "UnidentifiedImageError"
    [] kind = "corrupt"   -> "OSError"

\* lines 193-234, filtered the list the averages and the loop run over
Derive(filtered) ==
  IF Len(filtered) = 0 THEN [exc |-> "ZeroDivisionError", val |-> NoPalette]
  ELSE [exc |-> "none", val |-> PaletteOf(Vivid(filtered))]

\* the try block, lines 181-234
ExtractBody(logo) ==
  IF logo.kind # "image" THEN [exc |-> DecodeError(logo.kind), val |-> NoPalette]
  ELSE Derive(Filtered(logo.pixels))

\* faulty variant of Caught: "except FileNotFoundError"
Caught_missingOnly(exc) == exc = "FileNotFoundError"

\* "except Exception": every exception the body raises is one
Caught(exc) ==
  exc \in {"FileNotFoundError", "UnidentifiedImageError", "OSError", "ZeroDivisionError"}

\* lines 235-237: a caught exception becomes default_colors()
OnException(body) ==
  IF body.exc # "none" /\ Caught(body.exc)
  THEN [exc |-> "none", val |-> default_colors]
  ELSE body

extract_colors_from_logo(logo) == OnException(ExtractBody(logo))

(***************************************************************************)
(* Bounds and inputs.                                                      *)
(***************************************************************************)
\* samples per image in the model (the code always has 100 * 100)
MaxSamples == 3

White  == RGB(255, 255, 255)
Black  == RGB(0, 0, 0)
Red    == RGB(255, 0, 0)
Blue   == RGB(0, 0, 255)
Grey1  == RGB(100, 100, 100)
Grey2  == RGB(200, 200, 200)
DimRed == RGB(40, 0, 0)
MediumBlue == RGB(30, 90, 220)

BasePixels == {White, Black, Red, Blue, Grey1, Grey2, DimRed}

\* two tints of one saturation, 25/26, which colorsys computes as
\* 0.9615384615384615 and 0.9615384615384616
Tint1 == RGB(78, 3, 3)
Tint2 == RGB(52, 2, 2)

\* samples of different and of equal saturations
TintPixels == {MediumBlue, Tint1, Tint2, Red, Grey1}

\* channel values around the thresholds 15, 240 and 0.2 * 255 = 51
Levels == {0, 14, 15, 51, 52, 128, 240, 241, 255}

GridPixels == {RGB(r, g, b) : r \in Levels, g \in Levels, b \in Levels} \cup {MediumBlue}

Images ==
  {Image(<<p>>) : p \in GridPixels}
    \cup {Image(q) : q \in UNION {[1..n -> BasePixels] : n \in 1..MaxSamples}}
    \cup {Image(q) : q \in [1..2 -> TintPixels]}

UnreadableKinds == {"missing", "empty", "not_image", "corrupt"}

Logos == Images \cup {Unreadable(k) : k \in UnreadableKinds}

(***************************************************************************)
(* State.                                                                  *)
(***************************************************************************)
VARIABLES
  logo,          \* the file at the path handed to the engine, or NoLogo
  ret,           \* the outcome of the engine's call on it, or NoRet
  req,           \* the request a handler is serving, or NoReq
  resp,          \* its response, or NoResp
  calls,         \* the files the request handed to extract_colors_from_logo
  rendered,      \* the colours the request handed to create_pptx, or NoPalette
  brand_colors,  \* users.brand_colors of the signed-in user, a text (<<>>: empty)
  temp_files,    \* the temp_* files preview_colors saved in UPLOAD_DIR, each present or unlinked,
               \* of the request in progress or left by an earlier one
  thr,           \* each request thread's call of the engine: position, argument, result
  frames,        \* the local variables of each call's frame
  otp_codes,     \* the rows of table otp_codes, in the order of their ids
  users,         \* the rows of table users, in the order of their ids
  now,           \* the clock of the database, in steps of 5 minutes
  auth,          \* each worker's request to /api/auth/*: its inputs, position, locals, answer
  started        \* the number of auth requests received so far

vars == <<logo, ret, req, resp, calls, rendered, brand_colors, temp_files, thr, frames,
         otp_codes, users, now, auth, started>>

NoLogo == [kind |-> "nofile", pixels |-> <<>>]
NoRet  == [exc |-> "nocall", val |-> NoPalette]
NoReq  == [route |-> "none"]
NoResp == [status |-> 0]

engineVars  == <<logo, ret>>
handlerVars == <<req, resp, calls, rendered, brand_colors, temp_files>>
threadVars  == <<thr, frames>>
authVars    == <<otp_codes, users, now, auth, started>>

\* the workers that serve /api/auth/* requests
Workers == {1, 2}

\* a worker between two requests; uid is session['user_id'] of the answer (0: not
\* set), rec the row of otp_codes the request read or inserted, expires the
\* "expires" send_otp computed
NoAuth ==
  [route |-> "none", email |-> "", purpose |-> "", code |-> 0, pc |-> "idle",
   rec |-> 0, att |-> 0, expires |-> 0, is_first |-> FALSE, status |-> 0, uid |-> 0]

\* the threads of the server that call the engine
Threads == {1, 2}

\* a thread outside the engine; fp is the handle of the file it opened last
Idle == [pc |-> "idle", arg |-> NoLogo, out |-> NoPalette, fp |-> "none", met |-> FALSE]

\* a frame before line 181 has run
NoFrame ==
  [pixels |-> <<>>, filtered |-> <<>>, rest |-> <<>>, best_sat |-> FZero,
   vivid |-> [r |-> 0, g |-> 0, b |-> 0]]

Init ==
  /\ logo = NoLogo
  /\ ret = NoRet
  /\ req = NoReq
  /\ resp = NoResp
  /\ calls = <<>>
  /\ rendered = NoPalette
  /\ brand_colors = <<>>
  /\ temp_files = {}
  /\ thr = [t \in Threads |-> Idle]
  /\ frames = [t \in Threads |-> NoFrame]
  /\ otp_codes = <<>>
  /\ users = <<>>
  /\ now = 0
  /\ auth = [w \in Workers |-> NoAuth]
  /\ started = 0

(***************************************************************************)
(* The engine on its own: a caller saves a file, calls the engine on its   *)
(* path, and takes the palette.                                            *)
(***************************************************************************)
SaveLogo(l) ==
  /\ logo = NoLogo
  /\ logo' = l
  /\ UNCHANGED <<ret, handlerVars, threadVars, authVars>>

Extract ==
  /\ logo # NoLogo
  /\ ret = NoRet
  /\ ret' = extract_colors_from_logo(logo)
  /\ UNCHANGED <<logo, handlerVars, threadVars, authVars>>

TakePalette ==
  /\ ret # NoRet
  /\ logo' = NoLogo
  /\ ret' = NoRet
  /\ UNCHANGED <<handlerVars, threadVars, authVars>>

NextExtract ==
  \/ \E l \in Logos : SaveLogo(l)
  \/ Extract
  \/ TakePalette

SpecExtract == Init /\ [][NextExtract]_vars

(***************************************************************************)
(* The request handlers.  A request carries the route, the method, whether *)
(* a logo part with a file name is present, the suffix of that file name   *)
(* (a sequence of characters), what the uploaded file holds, the signed-in *)
(* user (0: none), and how the rest of the handler fares: "invalid" (a     *)
(* required input is missing, the handler answers 400), "ai_error" (the    *)
(* content step raises) or "ok".                                           *)
(***************************************************************************)
UpperAlpha == <<"A","B","C","D","E","F","G","H","I","J","K","L","M",
                "N","O","P","Q","R","S","T","U","V","W","X","Y","Z">>
LowerAlpha == <<"a","b","c","d","e","f","g","h","i","j","k","l","m",
                "n","o","p","q","r","s","t","u","v","w","x","y","z">>

LowerChar(c) ==
  IF \E i \in DOMAIN UpperAlpha : UpperAlpha[i] = c
  THEN LowerAlpha[CHOOSE i \in DOMAIN UpperAlpha : UpperAlpha[i] = c]
  ELSE c

\* str.lower()
Lower(str) == [i \in DOMAIN str |-> LowerChar(str[i])]

Svg == <<".","s","v","g">>

\* ('.png', '.jpg', '.jpeg', '.svg', '.webp')
AllowedExts ==
  {<<".","p","n","g">>, <<".","j","p","g">>, <<".","j","p","e","g">>, Svg,
   <<".","w","e","b","p">>}

\* json.dumps of a palette: the members in order, as the text holds them
JsonKeys ==
  <<"primary", "secondary", "accent", "dark", "light", "textDark", "textLight", "textMuted">>

JsonDumps(colors) == [i \in DOMAIN JsonKeys |-> <<JsonKeys[i], colors[JsonKeys[i]]>>]

\* json.loads of such a text
JsonLoads(text) ==
  [k \in {text[i][1] : i \in DOMAIN text} |->
     text[CHOOSE i \in DOMAIN text : text[i][1] = k][2]]

EmptyDict == <<>>

\* apply_brand, the colours: the saved brand replaces colours equal to default_colors()
apply_brand(colors) ==
  IF req.uid # 0 /\ brand_colors # <<>> /\ colors = default_colors
  THEN JsonLoads(brand_colors)
  ELSE colors

\* the engine's outcome as the logo block takes it
Extracted(out, ext) ==
  [exc |-> out.exc, colors |-> out.val, calls |-> <<ext>>]

\* the logo block of the deck handlers and of brand_settings: colors = default_colors(),
\* then the engine for an allowed suffix other than .svg; saved: the file was kept
LogoBlock(r) ==
  IF r.logo /\ Lower(r.suffix) \in AllowedExts /\ Lower(r.suffix) # Svg
  THEN Extracted(extract_colors_from_logo(r.file), Lower(r.suffix))
  ELSE [exc |-> "none", colors |-> default_colors, calls |-> <<>>]

Finish(status, colors, cs, rend) ==
  /\ resp' = [status |-> status, colors |-> colors]
  /\ calls' = cs
  /\ rendered' = rend
  /\ UNCHANGED <<req, engineVars, threadVars, authVars>>

\* the handler ends after the logo block: apply_brand, create_pptx, the response;
\* echo: the response carries "colors"
Render(lb, echo) ==
  IF lb.exc # "none" THEN Finish(500, NoPalette, lb.calls, NoPalette)
  ELSE Finish(200, IF echo THEN apply_brand(lb.colors) ELSE NoPalette, lb.calls,
              apply_brand(lb.colors))

\* the content step raises after the logo block
FailAfterLogo(lb) == Finish(500, NoPalette, lb.calls, NoPalette)

Receive(r) ==
  /\ req = NoReq
  /\ req' = r
  /\ UNCHANGED <<resp, calls, rendered, brand_colors, temp_files, engineVars, threadVars, authVars>>

\* /api/generate: the logo block comes before generate_slide_content
generate ==
  /\ req.route = "generate" /\ resp = NoResp
  /\ UNCHANGED <<brand_colors, temp_files>>
  /\ IF req.outcome = "invalid" THEN Finish(400, NoPalette, <<>>, NoPalette)
     ELSE IF req.outcome = "ai_error" THEN FailAfterLogo(LogoBlock(req))
     ELSE Render(LogoBlock(req), TRUE)

\* /api/polish: polish_slide_content comes before the logo block
polish ==
  /\ req.route = "polish" /\ resp = NoResp
  /\ UNCHANGED <<brand_colors, temp_files>>
  /\ IF req.outcome = "invalid" THEN Finish(400, NoPalette, <<>>, NoPalette)
     ELSE IF req.outcome = "ai_error" THEN Finish(500, NoPalette, <<>>, NoPalette)
     ELSE Render(LogoBlock(req), TRUE)

\* the brand row after the POST: written when the logo was saved
BrandSaved(lb) ==
  IF lb.exc # "none"
  THEN /\ Finish(500, NoPalette, lb.calls, NoPalette)
       /\ UNCHANGED <<brand_colors, temp_files>>
  ELSE /\ Finish(200, NoPalette, lb.calls, NoPalette)
       /\ brand_colors' = IF req.logo /\ Lower(req.suffix) \in AllowedExts
                          THEN JsonDumps(lb.colors)
                          ELSE brand_colors
       /\ UNCHANGED temp_files

\* /api/brand, GET and POST
brand_settings ==
  /\ req.route = "brand" /\ resp = NoResp
  /\ IF req.uid = 0
     THEN Finish(401, NoPalette, <<>>, NoPalette) /\ UNCHANGED <<brand_colors, temp_files>>
     ELSE IF req.method = "GET"
     THEN /\ Finish(200, IF brand_colors = <<>> THEN EmptyDict ELSE JsonLoads(brand_colors),
                    <<>>, NoPalette)
          /\ UNCHANGED <<brand_colors, temp_files>>
     ELSE BrandSaved(LogoBlock(req))

\* the audiences loop: a failing audience is reported and nothing is rendered for it
VersionsOf(lb) ==
  IF lb.exc # "none" THEN Finish(500, NoPalette, lb.calls, NoPalette)
  ELSE Finish(200, NoPalette, lb.calls,
              IF req.outcome = "ai_error" THEN NoPalette ELSE apply_brand(lb.colors))

\* /api/version
version ==
  /\ req.route = "version" /\ resp = NoResp
  /\ UNCHANGED <<brand_colors, temp_files>>
  /\ IF req.outcome = "invalid" THEN Finish(400, NoPalette, <<>>, NoPalette)
     ELSE VersionsOf(LogoBlock(req))

\* /api/style-transfer: style_transfer_content comes before the logo block
style_transfer ==
  /\ req.route = "style-transfer" /\ resp = NoResp
  /\ UNCHANGED <<brand_colors, temp_files>>
  /\ IF req.outcome = "invalid" THEN Finish(400, NoPalette, <<>>, NoPalette)
     ELSE IF req.outcome = "ai_error" THEN Finish(500, NoPalette, <<>>, NoPalette)
     ELSE Render(LogoBlock(req), FALSE)

\* /api/merge: polish_slide_content comes before the logo block
merge_decks ==
  /\ req.route = "merge" /\ resp = NoResp
  /\ UNCHANGED <<brand_colors, temp_files>>
  /\ IF req.outcome = "invalid" THEN Finish(400, NoPalette, <<>>, NoPalette)
     ELSE IF req.outcome = "ai_error" THEN Finish(500, NoPalette, <<>>, NoPalette)
     ELSE Render(LogoBlock(req), FALSE)

\* polish_slide_content raises on its second call, for the detail deck: create_pptx
\* has been handed the colours for the summary deck
FailAfterSummary(lb) ==
  IF lb.exc # "none" THEN Finish(500, NoPalette, lb.calls, NoPalette)
  ELSE Finish(500, NoPalette, lb.calls, apply_brand(lb.colors))

\* /api/split: the logo block comes before polish_slide_content, which is called
\* for the summary deck and, after its create_pptx, for the detail deck
split_deck ==
  /\ req.route = "split" /\ resp = NoResp
  /\ UNCHANGED <<brand_colors, temp_files>>
  /\ IF req.outcome = "invalid" THEN Finish(400, NoPalette, <<>>, NoPalette)
     ELSE IF req.outcome = "ai_error"
     THEN FailAfterLogo(LogoBlock(req)) \/ FailAfterSummary(LogoBlock(req))
     ELSE Render(LogoBlock(req), FALSE)

\* the response of preview_colors to the engine's outcome
Previewed(out) ==
  IF out.exc # "none" THEN [status |-> 500, colors |-> NoPalette]
  ELSE [status |-> 200, colors |-> out.val]

\* the temp files that may be left in UPLOAD_DIR at a time
MaxLeft == 1

\* the file temp_<id><suffix> of the request in progress
TempFile(suffix, state) == [suffix |-> suffix, state |-> state, owner |-> "request"]

\* the temp files earlier requests left in UPLOAD_DIR
Left == {f \in temp_files : f.owner = "left"}

\* the files that stay when a request is over
Leftover(files) ==
  {[suffix |-> f.suffix, state |-> "present", owner |-> "left"] :
     f \in {g \in files : g.state = "present"}}

\* a further file may be left in UPLOAD_DIR
MayLeave == Cardinality(Left) < MaxLeft

\* /api/preview-colors without a logo part, or with an empty filename
preview_nologo ==
  /\ req.route = "preview-colors" /\ resp = NoResp
  /\ ~req.logo
  /\ Finish(200, default_colors, <<>>, NoPalette)
  /\ UNCHANGED <<brand_colors, temp_files>>

\* logo_file.save(str(temp_path))
preview_save ==
  /\ req.route = "preview-colors" /\ resp = NoResp
  /\ req.logo
  /\ \A f \in temp_files : f.owner # "request"
  /\ temp_files' = temp_files \cup {TempFile(req.suffix, "present")}
  /\ UNCHANGED <<req, resp, calls, rendered, brand_colors, engineVars, threadVars, authVars>>

\* colors = extract_colors_from_logo(str(temp_path))
preview_extract ==
  /\ req.route = "preview-colors" /\ resp = NoResp
  /\ TempFile(req.suffix, "present") \in temp_files
  /\ calls = <<>>
  /\ calls' = <<req.suffix>>
  /\ ret' = extract_colors_from_logo(req.file)
  /\ UNCHANGED <<logo, req, resp, rendered, brand_colors, temp_files, threadVars, authVars>>

\* "try: os.unlink(str(temp_path))" / "except: pass", then the response: the
\* file is gone, or os.unlink raised and the file stays
preview_unlink ==
  /\ req.route = "preview-colors" /\ resp = NoResp
  /\ calls # <<>>
  /\ \E gone \in BOOLEAN :
       /\ gone \/ MayLeave
       /\ temp_files' = (temp_files \ {TempFile(req.suffix, "present")}) \cup
                           {TempFile(req.suffix, IF gone /\ ret.exc = "none"
                                                 THEN "unlinked" ELSE "present")}
  /\ resp' = Previewed(ret)
  /\ ret' = NoRet
  /\ UNCHANGED <<logo, req, calls, rendered, brand_colors, threadVars, authVars>>

\* gunicorn --timeout 120: the worker is stopped while the temp file is there;
\* no response, the file stays
worker_timeout ==
  /\ req.route = "preview-colors" /\ resp = NoResp
  /\ TempFile(req.suffix, "present") \in temp_files
  /\ MayLeave
  /\ req' = NoReq
  /\ calls' = <<>>
  /\ ret' = NoRet
  /\ temp_files' = Leftover(temp_files)
  /\ UNCHANGED <<logo, resp, rendered, brand_colors, threadVars, authVars>>

\* /api/preview-colors
preview_colors ==
  \/ preview_nologo
  \/ preview_save
  \/ preview_extract
  \/ preview_unlink

\* the response leaves; the next request starts from scratch
Respond ==
  /\ resp # NoResp
  /\ req' = NoReq
  /\ resp' = NoResp
  /\ calls' = <<>>
  /\ rendered' = NoPalette
  /\ temp_files' = Leftover(temp_files)
  /\ UNCHANGED <<brand_colors, engineVars, threadVars, authVars>>

DeckRoutes == {"generate", "polish", "version", "style-transfer", "merge", "split"}

Suffixes ==
  {<<".","p","n","g">>, <<".","P","N","G">>, Svg, <<".","S","V","G">>, <<".","g","i","f">>}

Uploads == {Image(<<Red>>), Image(<<White>>), Unreadable("not_image")}

Request(route, method, outcome, named, suffix, file, uid) ==
  [route |-> route, method |-> method, outcome |-> outcome, logo |-> named,
   suffix |-> suffix, file |-> file, uid |-> uid]

LogoParts ==
  {[logo |-> FALSE, suffix |-> <<>>, file |-> NoLogo]}
    \cup {[logo |-> TRUE, suffix |-> x, file |-> f] : x \in Suffixes, f \in Uploads}

Requests ==
  {Request(ro, "POST", o, l.logo, l.suffix, l.file, u) :
     ro \in DeckRoutes, o \in {"invalid", "ai_error", "ok"}, l \in LogoParts, u \in 0..1}
    \cup {Request("brand", m, "ok", l.logo, l.suffix, l.file, u) :
            m \in {"GET", "POST"}, l \in LogoParts, u \in 0..1}
    \cup {Request("preview-colors", "POST", "ok", l.logo, l.suffix, l.file, u) :
            l \in LogoParts, u \in 0..1}

Next ==
  \/ \E r \in Requests : Receive(r)
  \/ generate
  \/ polish
  \/ brand_settings
  \/ version
  \/ style_transfer
  \/ merge_decks
  \/ split_deck
  \/ preview_colors
  \/ worker_timeout
  \/ Respond

Spec == Init /\ [][Next]_vars

(***************************************************************************)
(* The engine called from several request threads at once (gunicorn serves *)
(* app:app).  A call is taken one statement at a time; its local variables *)
(* live in the frame of the call.  fp is the file object Image.open        *)
(* creates: the function has no "with" and no close(), PIL closes the file *)
(* when it cannot identify it and when the image is loaded, and a file     *)
(* whose decoding fails is closed only when the garbage collector finds    *)
(* the image object, at a time the language does not fix.                  *)
(***************************************************************************)
\* faulty variant of Frame: the locals are module-level variables
Frame_shared(t) == 1

\* the frame that holds the locals of thread t's call
Frame(t) == t

Inside(t) == thr[t].pc \notin {"idle", "done"}

\* logo files of the concurrent calls
ThreadLogos ==
  {Image(<<Red, Blue>>), Image(<<Blue, Red>>), Image(<<Grey1, Grey2>>),
   Image(<<Tint1, Tint2>>), Image(<<Tint2, Tint1>>), Image(<<White, Black>>),
   Unreadable("corrupt"), Unreadable("missing"), Unreadable("not_image")}

\* thread t moves on; met records that two calls were in progress at once
Advance(t, pc, out, fp) ==
  thr' = [u \in Threads |->
            IF u = t
            THEN [thr[t] EXCEPT !.pc = pc, !.out = out, !.fp = fp,
                                !.met = @ \/ (\E w \in Threads \ {t} : Inside(w))]
            ELSE [thr[u] EXCEPT !.met = @ \/ Inside(u)]]

\* a handler calls extract_colors_from_logo(logo_path)
Call(t, l) ==
  /\ thr[t].pc = "idle"
  /\ thr' = [thr EXCEPT ![t] = [Idle EXCEPT !.pc = "open", !.arg = l]]
  /\ UNCHANGED <<frames, engineVars, handlerVars, authVars>>

\* the file object after lines 181-183
HandleAfterOpen(kind) ==
  CASE kind = "image"     -> "closed"
    [] kind = "missing"   -> "none"
    [] kind = "empty"     -> "closed"
    [] kind = "not_image" -> "closed"
    [] kind = "corrupt"   -> "open"

\* lines 181-183: open, convert, resize, getdata
OpenImage(t) ==
  /\ thr[t].pc = "open"
  /\ IF thr[t].arg.kind = "image"
     THEN /\ frames' = [frames EXCEPT ![Frame(t)].pixels = thr[t].arg.pixels]
          /\ Advance(t, "filter", NoPalette, HandleAfterOpen(thr[t].arg.kind))
     ELSE /\ frames' = frames
          /\ Advance(t, "except", NoPalette, HandleAfterOpen(thr[t].arg.kind))
  /\ UNCHANGED <<engineVars, handlerVars, authVars>>

\* lines 186-191
FilterPixels(t) ==
  /\ thr[t].pc = "filter"
  /\ frames' = [frames EXCEPT ![Frame(t)].filtered = Filtered(frames[Frame(t)].pixels)]
  /\ Advance(t, "average", NoPalette, thr[t].fp)
  /\ UNCHANGED <<engineVars, handlerVars, authVars>>

\* lines 194-201: the averages, best_sat = 0, vivid = the average, iter(filtered)
Averages(t) ==
  /\ thr[t].pc = "average"
  /\ IF Len(frames[Frame(t)].filtered) = 0
     THEN /\ frames' = frames
          /\ Advance(t, "except", NoPalette, thr[t].fp)
     ELSE /\ frames' = [frames EXCEPT ![Frame(t)].best_sat = FZero,
                                      ![Frame(t)].vivid = Average(frames[Frame(t)].filtered),
                                      ![Frame(t)].rest = frames[Frame(t)].filtered]
          /\ Advance(t, "loop", NoPalette, thr[t].fp)
  /\ UNCHANGED <<engineVars, handlerVars, authVars>>

\* the frame after one pixel of the loop, hsv its colorsys.rgb_to_hsv
Visited(fr, hsv) ==
  IF MoreVivid(hsv, fr.best_sat)
  THEN [fr EXCEPT !.best_sat = hsv.s, !.vivid = Head(fr.rest), !.rest = Tail(fr.rest)]
  ELSE [fr EXCEPT !.rest = Tail(fr.rest)]

\* lines 201-205: one pixel of the loop
LoopStep(t) ==
  /\ thr[t].pc = "loop"
  /\ frames[Frame(t)].rest # <<>>
  /\ frames' = [frames EXCEPT
                  ![Frame(t)] = Visited(frames[Frame(t)], PixelHSV(Head(frames[Frame(t)].rest)))]
  /\ Advance(t, "loop", NoPalette, thr[t].fp)
  /\ UNCHANGED <<engineVars, handlerVars, authVars>>

\* lines 207-234: the loop is over, the palette is built and returned; the
\* frame of the call is gone
ReturnPalette(t) ==
  /\ thr[t].pc = "loop"
  /\ frames[Frame(t)].rest = <<>>
  /\ Advance(t, "done", PaletteOf(frames[Frame(t)].vivid), thr[t].fp)
  /\ frames' = [frames EXCEPT ![Frame(t)] = NoFrame]
  /\ UNCHANGED <<engineVars, handlerVars, authVars>>

\* the file object once the frame and the exception are released
Released(fp) == IF fp = "open" THEN {"open", "closed"} ELSE {fp}

\* lines 235-237: the exception is caught, default_colors() is returned
ReturnDefault(t) ==
  /\ thr[t].pc = "except"
  /\ \E fp \in Released(thr[t].fp) : Advance(t, "done", default_colors, fp)
  /\ frames' = [frames EXCEPT ![Frame(t)] = NoFrame]
  /\ UNCHANGED <<engineVars, handlerVars, authVars>>

\* the handler takes the palette
TakeResult(t) ==
  /\ thr[t].pc = "done"
  /\ thr' = [thr EXCEPT ![t] = Idle]
  /\ UNCHANGED <<frames, engineVars, handlerVars, authVars>>

NextThreads ==
  \E t \in Threads :
    \/ \E l \in ThreadLogos : Call(t, l)
    \/ OpenImage(t)
    \/ FilterPixels(t)
    \/ Averages(t)
    \/ LoopStep(t)
    \/ ReturnPalette(t)
    \/ ReturnDefault(t)
    \/ TakeResult(t)

SpecThreads == Init /\ [][NextThreads]_vars

(***************************************************************************)
(* The OTP handlers, /api/auth/send-otp, /api/auth/verify-otp and          *)
(* /api/auth/register.  get_db() sets autocommit: every cur.execute is a   *)
(* transaction of its own, and the statements of concurrent requests       *)
(* interleave.  A handler is taken one SQL statement at a time, with the   *)
(* Python code that follows the statement.  The clock advances in steps of *)
(* 5 minutes; ids and created_at grow with the order of the inserts.       *)
(***************************************************************************)
\* "if cur.fetchone()['cnt'] >= 5"
RateLimit == 5

\* "if otp_rec['attempts'] >= 3"
MaxAttempts == 3

\* timedelta(minutes=5), in steps of the clock
ExpiryTicks == 1

\* INTERVAL '15 minutes', in steps of the clock
WindowTicks == 3

\* auth requests received in a behaviour with concurrent requests
MaxRequests == 4

\* auth requests received in a behaviour with concurrent registrations of one email
MaxSignups == 3

\* auth requests received in a behaviour with one request at a time
MaxSeqRequests == 5

\* send-otp requests received in a behaviour about the rate limit
MaxSends == 6

\* the last step of the clock in a behaviour
MaxClock == 1

\* two of the codes generate_otp() draws
Codes == {111111, 222222}

Purposes == {"login", "register"}

\* the requests for the emails E (after strip().lower(); "" stands for a
\* missing or malformed one)
AuthRequests(E) ==
  {[route |-> "send-otp", email |-> e, purpose |-> p, code |-> 0] :
     e \in E, p \in Purposes}
    \cup {[route |-> "verify-otp", email |-> e, purpose |-> p, code |-> c] :
            e \in E \ {""}, p \in Purposes, c \in Codes}
    \cup {[route |-> "register", email |-> e, purpose |-> "register", code |-> c] :
            e \in E \ {""}, c \in Codes}

\* one client; two clients who register, one of them also verifying, and who
\* submit the first of the codes (right or wrong as send_otp has drawn it);
\* and the send-otp requests of one client
SeqRequests == AuthRequests({"", "a@x"})
ConcurrentRequests ==
  {r \in AuthRequests({"a@x", "b@x"}) :
     /\ r.code # 222222
     /\ r.purpose = "register"
     /\ r.email = "b@x" => r.route # "verify-otp"}
SendRequests ==
  {r \in AuthRequests({"a@x"}) : r.route = "send-otp" /\ r.purpose = "register"}

\* the row INSERT INTO otp_codes (email, code, purpose, expires_at) creates at
\* time t. created_at is CURRENT_TIMESTAMP in 5-minute steps and stamp its rank
\* among the timestamps of the table: rows inserted in the same microsecond
\* have the same stamp. wrong is no column: it records how many wrong codes
\* were compared against the row
OtpRow(email, code, purpose, t, expires, stamp) ==
  [email |-> email, code |-> code, purpose |-> purpose, attempts |-> 0,
   used |-> FALSE, created_at |-> t, expires_at |-> expires, stamp |-> stamp,
   wrong |-> 0]

\* SELECT COUNT(*) FROM otp_codes WHERE email=%s AND created_at > NOW() - INTERVAL '15 minutes'
RecentCount(email) ==
  Cardinality({i \in DOMAIN otp_codes :
                 /\ otp_codes[i].email = email
                 /\ otp_codes[i].created_at > now - WindowTicks})

\* the SELECT without its "used=FALSE"
Live_ignoringUsed(email, purpose) ==
  {i \in DOMAIN otp_codes :
     /\ otp_codes[i].email = email
     /\ otp_codes[i].purpose = purpose
     /\ otp_codes[i].expires_at > now}

\* WHERE email=%s AND purpose=%s AND used=FALSE AND expires_at > NOW()
Live(email, purpose) ==
  {i \in DOMAIN otp_codes :
     /\ otp_codes[i].email = email
     /\ otp_codes[i].purpose = purpose
     /\ ~otp_codes[i].used
     /\ otp_codes[i].expires_at > now}

\* the rows that may come first in "ORDER BY created_at DESC": among rows of
\* the same timestamp the order is the database's choice
Newest(rows) ==
  {i \in rows : \A j \in rows : otp_codes[j].stamp <= otp_codes[i].stamp}

\* ... ORDER BY created_at DESC LIMIT 1: the ids otp_rec may have, none for no row
LatestLive(email, purpose) == Newest(Live(email, purpose))

\* SELECT id FROM users WHERE email=%s: the id, 0 for no row
UserId(email) ==
  IF \E i \in DOMAIN users : users[i].email = email
  THEN CHOOSE i \in DOMAIN users : users[i].email = email
  ELSE 0

\* the worker returns a response; uid is what it stored in session['user_id']
Done(w, status, uid) ==
  auth' = [auth EXCEPT ![w].pc = "done", ![w].status = status, ![w].uid = uid]

Goto(w, pc) == auth' = [auth EXCEPT ![w].pc = pc]

At(w, route, pc) == auth[w].route = route /\ auth[w].pc = pc

\* a worker takes a request, while fewer than cap have been received
AuthReceive(w, r, cap) ==
  /\ auth[w].pc = "idle"
  /\ started < cap
  /\ started' = started + 1
  /\ auth' = [auth EXCEPT ![w] = [NoAuth EXCEPT !.route = r.route, !.email = r.email,
                                               !.purpose = r.purpose, !.code = r.code,
                                               !.pc = "start"]]
  /\ UNCHANGED <<otp_codes, users, now, engineVars, handlerVars, threadVars>>

\* send_otp: the check of the email and the rate limit
send_otp_limit(w) ==
  /\ At(w, "send-otp", "start")
  /\ IF auth[w].email = "" THEN Done(w, 400, 0)
     ELSE IF RecentCount(auth[w].email) >= RateLimit THEN Done(w, 429, 0)
     ELSE Goto(w, "user")
  /\ UNCHANGED <<otp_codes, users, now, started, engineVars, handlerVars, threadVars>>

\* send_otp: login needs an account, register needs none
send_otp_user(w) ==
  /\ At(w, "send-otp", "user")
  /\ IF auth[w].purpose = "login" /\ UserId(auth[w].email) = 0 THEN Done(w, 404, 0)
     ELSE IF auth[w].purpose = "register" /\ UserId(auth[w].email) # 0 THEN Done(w, 409, 0)
     ELSE Goto(w, "invalidate")
  /\ UNCHANGED <<otp_codes, users, now, started, engineVars, handlerVars, threadVars>>

\* UPDATE otp_codes SET used=TRUE WHERE email=%s AND purpose=%s AND used=FALSE;
\* expires = datetime.utcnow() + timedelta(minutes=5)
send_otp_invalidate(w) ==
  /\ At(w, "send-otp", "invalidate")
  /\ otp_codes' = [i \in DOMAIN otp_codes |->
                     IF /\ otp_codes[i].email = auth[w].email
                        /\ otp_codes[i].purpose = auth[w].purpose
                     THEN [otp_codes[i] EXCEPT !.used = TRUE]
                     ELSE otp_codes[i]]
  /\ auth' = [auth EXCEPT ![w].pc = "insert", ![w].expires = now + ExpiryTicks]
  /\ UNCHANGED <<users, now, started, engineVars, handlerVars, threadVars>>

\* the stamp of the row inserted last
LastStamp == IF otp_codes = <<>> THEN 0 ELSE otp_codes[Len(otp_codes)].stamp

\* the row inserted last is the row of a send_otp request that another worker
\* has not answered yet, inserted in this step of the clock
InsertedJustNow(w) ==
  /\ otp_codes # <<>>
  /\ otp_codes[Len(otp_codes)].created_at = now
  /\ \E v \in Workers \ {w} :
       At(v, "send-otp", "done") /\ auth[v].rec = Len(otp_codes)

\* CURRENT_TIMESTAMP of an INSERT: later than the rows of the table, or that of
\* the INSERT of a concurrent request
Stamps(w) == {LastStamp + 1} \cup (IF InsertedJustNow(w) THEN {LastStamp} ELSE {})

\* INSERT INTO otp_codes of the code generate_otp() drew and the expires
\* computed before; send_otp_email succeeds or not
send_otp_insert(w) ==
  /\ At(w, "send-otp", "insert")
  /\ \E c \in Codes, st \in Stamps(w) :
       otp_codes' = Append(otp_codes, OtpRow(auth[w].email, c, auth[w].purpose, now,
                                             auth[w].expires, st))
  /\ \E sent \in BOOLEAN :
       auth' = [auth EXCEPT ![w].pc = "done", ![w].rec = Len(otp_codes) + 1,
                            ![w].status = IF sent THEN 200 ELSE 500]
  /\ UNCHANGED <<users, now, started, engineVars, handlerVars, threadVars>>

\* the worker holds otp_rec: its id and the attempts it read
Holding(w, r) ==
  auth' = [auth EXCEPT ![w].rec = r, ![w].att = otp_codes[r].attempts, ![w].pc = "count"]

\* verify_otp: SELECT * FROM otp_codes ... LIMIT 1
verify_otp_select(w) ==
  /\ At(w, "verify-otp", "start")
  /\ IF LatestLive(auth[w].email, auth[w].purpose) = {} THEN Done(w, 400, 0)
     ELSE \E r \in LatestLive(auth[w].email, auth[w].purpose) : Holding(w, r)
  /\ UNCHANGED <<otp_codes, users, now, started, engineVars, handlerVars, threadVars>>

\* verify_otp: too many attempts, or attempts = attempts + 1 and the comparison
verify_otp_count(w) ==
  /\ At(w, "verify-otp", "count")
  /\ IF auth[w].att >= MaxAttempts
     THEN /\ otp_codes' = [otp_codes EXCEPT ![auth[w].rec].used = TRUE]
          /\ Done(w, 429, 0)
     ELSE IF auth[w].code # otp_codes[auth[w].rec].code
     THEN /\ otp_codes' = [otp_codes EXCEPT ![auth[w].rec].attempts = @ + 1,
                                            ![auth[w].rec].wrong = @ + 1]
          /\ Done(w, 400, 0)
     ELSE /\ otp_codes' = [otp_codes EXCEPT ![auth[w].rec].attempts = @ + 1]
          /\ Goto(w, "mark")
  /\ UNCHANGED <<users, now, started, engineVars, handlerVars, threadVars>>

\* verify_otp: UPDATE otp_codes SET used=TRUE WHERE id=%s
verify_otp_mark(w) ==
  /\ At(w, "verify-otp", "mark")
  /\ otp_codes' = [otp_codes EXCEPT ![auth[w].rec].used = TRUE]
  /\ IF auth[w].purpose = "login" THEN Goto(w, "user") ELSE Done(w, 200, 0)
  /\ UNCHANGED <<users, now, started, engineVars, handlerVars, threadVars>>

\* verify_otp: SELECT * FROM users WHERE email=%s; session['user_id'] = user['id']
verify_otp_user(w) ==
  /\ At(w, "verify-otp", "user")
  /\ IF UserId(auth[w].email) # 0 THEN Done(w, 200, UserId(auth[w].email))
     ELSE Done(w, 404, 0)
  /\ UNCHANGED <<otp_codes, users, now, started, engineVars, handlerVars, threadVars>>

\* api_register without its compare_digest
Registering_noCompare(w, r) ==
  IF r = 0 THEN Done(w, 400, 0) /\ UNCHANGED otp_codes
  ELSE IF otp_codes[r].attempts >= MaxAttempts
  THEN Done(w, 429, 0) /\ UNCHANGED otp_codes
  ELSE /\ auth' = [auth EXCEPT ![w].rec = r, ![w].att = otp_codes[r].attempts,
                               ![w].pc = "mark"]
       /\ UNCHANGED otp_codes

\* api_register: the otp_rec read, the comparison, then the attempts
Registering(w, r) ==
  IF r = 0 THEN Done(w, 400, 0) /\ UNCHANGED otp_codes
  ELSE IF auth[w].code # otp_codes[r].code
  THEN Done(w, 400, 0) /\ otp_codes' = [otp_codes EXCEPT ![r].wrong = @ + 1]
  ELSE IF otp_codes[r].attempts >= MaxAttempts
  THEN Done(w, 429, 0) /\ UNCHANGED otp_codes
  ELSE /\ auth' = [auth EXCEPT ![w].rec = r, ![w].att = otp_codes[r].attempts,
                               ![w].pc = "mark"]
       /\ UNCHANGED otp_codes

\* api_register: SELECT * FROM otp_codes ... purpose='register' ... LIMIT 1
api_register_select(w) ==
  /\ At(w, "register", "start")
  /\ IF LatestLive(auth[w].email, "register") = {} THEN Registering(w, 0)
     ELSE \E r \in LatestLive(auth[w].email, "register") : Registering(w, r)
  /\ UNCHANGED <<users, now, started, engineVars, handlerVars, threadVars>>

\* api_register: UPDATE otp_codes SET used=TRUE WHERE id=%s
api_register_mark(w) ==
  /\ At(w, "register", "mark")
  /\ otp_codes' = [otp_codes EXCEPT ![auth[w].rec].used = TRUE]
  /\ Goto(w, "exists")
  /\ UNCHANGED <<users, now, started, engineVars, handlerVars, threadVars>>

\* api_register: SELECT id FROM users WHERE email=%s
api_register_exists(w) ==
  /\ At(w, "register", "exists")
  /\ IF UserId(auth[w].email) # 0 THEN Done(w, 409, 0) ELSE Goto(w, "first")
  /\ UNCHANGED <<otp_codes, users, now, started, engineVars, handlerVars, threadVars>>

\* api_register: SELECT COUNT(*) as cnt FROM users; is_first = cnt == 0
api_register_first(w) ==
  /\ At(w, "register", "first")
  /\ auth' = [auth EXCEPT ![w].is_first = (Len(users) = 0), ![w].pc = "insert"]
  /\ UNCHANGED <<otp_codes, users, now, started, engineVars, handlerVars, threadVars>>

\* the INSERT into a users table whose email column is not UNIQUE
api_register_insert_noUnique(w) ==
  /\ At(w, "register", "insert")
  /\ users' = Append(users, [email |-> auth[w].email,
                             is_superadmin |-> auth[w].is_first])
  /\ Done(w, 200, Len(users) + 1)
  /\ UNCHANGED <<otp_codes, now, started, engineVars, handlerVars, threadVars>>

\* api_register: INSERT INTO users ... RETURNING id, or UniqueViolation on the email
api_register_insert(w) ==
  /\ At(w, "register", "insert")
  /\ IF UserId(auth[w].email) # 0
     THEN users' = users /\ Done(w, 409, 0)
     ELSE /\ users' = Append(users, [email |-> auth[w].email,
                                     is_superadmin |-> auth[w].is_first])
          /\ Done(w, 200, Len(users) + 1)
  /\ UNCHANGED <<otp_codes, now, started, engineVars, handlerVars, threadVars>>

\* the response leaves the worker
AuthReply(w) ==
  /\ auth[w].pc = "done"
  /\ auth' = [auth EXCEPT ![w] = NoAuth]
  /\ UNCHANGED <<otp_codes, users, now, started, engineVars, handlerVars, threadVars>>

\* five minutes pass, between any two statements, up to the step last of the clock
Tick(last) ==
  /\ now < last
  /\ now' = now + 1
  /\ UNCHANGED <<otp_codes, users, auth, started, engineVars, handlerVars, threadVars>>

AuthStep(w) ==
  \/ send_otp_limit(w)
  \/ send_otp_user(w)
  \/ send_otp_invalidate(w)
  \/ send_otp_insert(w)
  \/ verify_otp_select(w)
  \/ verify_otp_count(w)
  \/ verify_otp_mark(w)
  \/ verify_otp_user(w)
  \/ api_register_select(w)
  \/ api_register_mark(w)
  \/ api_register_exists(w)
  \/ api_register_first(w)
  \/ api_register_insert(w)
  \/ AuthReply(w)

\* the steps of the requests that register
RegisterStep(w) ==
  \/ send_otp_limit(w)
  \/ send_otp_user(w)
  \/ send_otp_invalidate(w)
  \/ send_otp_insert(w)
  \/ verify_otp_select(w)
  \/ verify_otp_count(w)
  \/ verify_otp_mark(w)
  \/ api_register_select(w)
  \/ api_register_mark(w)
  \/ api_register_exists(w)
  \/ api_register_first(w)
  \/ api_register_insert(w)
  \/ AuthReply(w)

\* worker 2 serves a request only while worker 1 is serving one
Free(w) == w = 1 \/ auth[1].pc # "idle"

\* requests served concurrently
NextAuth ==
  \/ \E w \in Workers : \E r \in ConcurrentRequests :
       Free(w) /\ AuthReceive(w, r, MaxRequests)
  \/ \E w \in Workers : RegisterStep(w)
  \/ Tick(MaxClock)

SpecAuth == Init /\ [][NextAuth]_vars

\* the requests of the clients who register one email
SignupRequests ==
  {r \in ConcurrentRequests : r.email = "a@x" /\ r.route # "verify-otp"}

\* the steps of send_otp and api_register
SignupStep(w) ==
  \/ send_otp_limit(w)
  \/ send_otp_user(w)
  \/ send_otp_invalidate(w)
  \/ send_otp_insert(w)
  \/ api_register_select(w)
  \/ api_register_mark(w)
  \/ api_register_exists(w)
  \/ api_register_first(w)
  \/ api_register_insert(w)
  \/ AuthReply(w)

\* registrations of one email served concurrently
NextSignup ==
  \/ \E w \in Workers : \E r \in SignupRequests :
       Free(w) /\ AuthReceive(w, r, MaxSignups)
  \/ \E w \in Workers : SignupStep(w)
  \/ Tick(MaxClock)

SpecSignup == Init /\ [][NextSignup]_vars

\* requests served one at a time, by worker 1
NextAuthSeq ==
  \/ \E r \in SeqRequests : AuthReceive(1, r, MaxSeqRequests)
  \/ AuthStep(1)
  \/ Tick(MaxClock)

SpecAuthSeq == Init /\ [][NextAuthSeq]_vars

\* the steps of send_otp
SendStep(w) ==
  \/ send_otp_limit(w)
  \/ send_otp_user(w)
  \/ send_otp_invalidate(w)
  \/ send_otp_insert(w)
  \/ AuthReply(w)

\* send-otp requests of one client, served concurrently, over 15 minutes
NextRate ==
  \/ \E w \in Workers : \E r \in SendRequests : Free(w) /\ AuthReceive(w, r, MaxSends)
  \/ \E w \in Workers : SendStep(w)
  \/ Tick(MaxClock)

SpecRate == Init /\ [][NextRate]_vars

(***************************************************************************)
(* Properties of the engine (under SpecExtract) and of the handlers        *)
(* (under Spec).  Returned: the engine's call on the saved file is over.   *)
(***************************************************************************)
Returned == ret # NoRet

\* the call returned a palette the try block built
Succeeded == Returned /\ logo.kind = "image"

\* the palette the specification writes out as DefaultPalette
DefaultPalette ==
  [primary   |-> <<"1","E","2","7","6","1">>,
   secondary |-> <<"C","A","D","C","F","C">>,
   accent    |-> <<"4","A","9","0","D","9">>,
   dark      |-> <<"0","F","1","6","2","9">>,
   light     |-> <<"F","8","F","9","F","A">>,
   textDark  |-> <<"1","A","1","A","2","E">>,
   textLight |-> <<"F","F","F","F","F","F">>,
   textMuted |-> <<"6","B","7","2","8","0">>]

DerivedKeys == {"primary", "secondary", "accent", "dark"}
FixedKeys   == {"light", "textDark", "textLight", "textMuted"}

Digits      == {"0","1","2","3","4","5","6","7","8","9"}
LowerLetters == {"a","b","c","d","e","f"}
UpperLetters == {"A","B","C","D","E","F"}

IsHex6(str) ==
  /\ Len(str) = 6
  /\ \A i \in 1..6 : str[i] \in Digits \cup LowerLetters \cup UpperLetters

NoUpper(str) == \A i \in DOMAIN str : str[i] \notin UpperLetters
NoLower(str) == \A i \in DOMAIN str : str[i] \notin LowerLetters

\* the value of a hex digit of either case
HexVal(ch) ==
  IF \E j \in DOMAIN HexLower : HexLower[j] = ch
  THEN (CHOOSE j \in DOMAIN HexLower : HexLower[j] = ch) - 1
  ELSE (CHOOSE j \in DOMAIN HexUpper : HexUpper[j] = ch) - 1

\* channel i (1..3) of a 6-digit hex colour
Byte(str, i) == 16 * HexVal(str[2 * i - 1]) + HexVal(str[2 * i])

MaxByte(str) == MaxOf(MaxOf(Byte(str, 1), Byte(str, 2)), Byte(str, 3))

\* the lowercase 6-digit hex of a pixel, digit by digit
LowerHex6(p) ==
  <<HexLower[(p.r \div 16) + 1], HexLower[(p.r % 16) + 1],
    HexLower[(p.g \div 16) + 1], HexLower[(p.g % 16) + 1],
    HexLower[(p.b \div 16) + 1], HexLower[(p.b % 16) + 1]>>

Uniform(pixels, p) == \A i \in DOMAIN pixels : pixels[i] = p

MaxCh(p) == MaxOf(MaxOf(p.r, p.g), p.b)
MinCh(p) == MinOf(MinOf(p.r, p.g), p.b)

\* not near-white, not near-black, saturation > 0 and value > 0.2, in exact terms
Saturated(p) ==
  /\ ~(p.r > 240 /\ p.g > 240 /\ p.b > 240)
  /\ ~(p.r < 15 /\ p.g < 15 /\ p.b < 15)
  /\ MaxCh(p) # MinCh(p)
  /\ 5 * MaxCh(p) > 255

\* C1: extract_colors_from_logo is total: for every file at logo_path (missing,
\* empty, not an image, corrupt, or an image of any pixels) the call returns,
\* no exception leaves it, and the value is a record with exactly the 8 keys.
C1_Total == Returned => (ret.exc = "none" /\ DOMAIN ret.val = PaletteKeys)

\* C1 witness: the call on a zero-byte file has returned a palette
C1_Witness ==
  /\ logo = Unreadable("empty")
  /\ Returned
  /\ ret.exc = "none"
  /\ DOMAIN ret.val = PaletteKeys

\* C2: when the extraction fails (the file is missing or cannot be decoded) the
\* value returned is exactly DefaultPalette, never a partly derived palette.
C2_FallbackExact ==
  (Returned /\ logo.kind \in UnreadableKinds) => (ret.exc = "none" /\ ret.val = DefaultPalette)

\* C2 witness: the call on a missing file has returned DefaultPalette
C2_Witness == logo = Unreadable("missing") /\ Returned /\ ret.val = DefaultPalette

\* the four fixed fields hold their constants
FixedFields(p) ==
  /\ p.light = <<"F","8","F","9","F","A">>
  /\ p.textDark = <<"1","A","1","A","2","E">>
  /\ p.textLight = <<"F","F","F","F","F","F">>
  /\ p.textMuted = <<"6","B","7","2","8","0">>

\* C3: in every palette extract_colors_from_logo returns, on the success path and
\* on the fallback path, and in default_colors(), light, textDark, textLight and
\* textMuted are "F8F9FA", "1A1A2E", "FFFFFF" and "6B7280".
C3_FixedFields ==
  /\ FixedFields(default_colors)
  /\ (Returned /\ ret.exc = "none") => FixedFields(ret.val)

\* C3 witness: a palette derived from a red logo, with the fixed fields in place
C3_Witness ==
  /\ logo = Image(<<Red>>)
  /\ Returned
  /\ ret.val.primary = <<"f","f","0","0","0","0">>
  /\ FixedFields(ret.val)

\* C4: each of the 8 values of a returned palette is a string of exactly 6 hex
\* digits with no leading "#".  A channel is written with two digits exactly when
\* it lies in 0..255 (a larger one takes three, a negative one a sign), so the six
\* digits of secondary, accent and dark put each derived channel in 0..255.
C4_HexFormat ==
  (Returned /\ ret.exc = "none") => \A k \in PaletteKeys : IsHex6(ret.val[k])

\* C4 witness: a derived palette of a fully saturated, full-value pixel, where the
\* clamps of accent and secondary act
C4_Witness ==
  /\ logo = Image(<<Red>>)
  /\ Returned
  /\ \A k \in PaletteKeys : IsHex6(ret.val[k])
  /\ Byte(ret.val.secondary, 1) = 255

\* C5 as stated: within one palette returned on the success path the letter case
\* of the hex digits is consistent, all lowercase or all uppercase.
C5_CaseConsistent ==
  Succeeded => \/ \A k \in PaletteKeys : NoUpper(ret.val[k])
               \/ \A k \in PaletteKeys : NoLower(ret.val[k])

\* C5 amended: on the success path the four derived values are written with
\* lowercase hex digits and the four fixed values with uppercase ones.
C5_DerivedLowerFixedUpper ==
  Succeeded => /\ \A k \in DerivedKeys : NoUpper(ret.val[k])
               /\ \A k \in FixedKeys : NoLower(ret.val[k])

\* C5 witness: a derived palette whose primary holds a lowercase letter next to
\* the uppercase light
C5_Witness ==
  /\ logo = Image(<<Red>>)
  /\ Returned
  /\ ret.val.primary[1] = "f"
  /\ ret.val.light[1] = "F"

\* C7: for an image of one colour c that is not near-white, not near-black and has
\* saturation > 0 and value > 0.2, primary is the lowercase hex of c.
C7_UniformPrimary ==
  (Succeeded /\ Uniform(logo.pixels, logo.pixels[1]) /\ Saturated(logo.pixels[1]))
    => ret.val.primary = LowerHex6(logo.pixels[1])

\* C7 witness: three samples of pure red give primary ff0000
C7_Witness ==
  /\ logo = Image(<<Red, Red, Red>>)
  /\ Returned
  /\ ret.val.primary = <<"f","f","0","0","0","0">>

\* the image is all of the colour p: the filter keeps no pixel, the loop selects
\* none, the try block ends without an exception and primary is hex
Monochrome(p, hex) ==
  (Succeeded /\ Uniform(logo.pixels, p))
    => /\ SelectSeq(logo.pixels, KeepPixel) = <<>>
       /\ ~MoreVivid(PixelHSV(p), FZero)
       /\ ExtractBody(logo).exc = "none"
       /\ ret.val.primary = hex
       /\ ret.val # DefaultPalette

\* C8: for an all-white or an all-black image the filter removes every pixel, the
\* unfiltered pixels are used, no pixel is selected as vivid and the call returns
\* on the normal path: primary is the average, "ffffff" or "000000", not "1E2761".
C8_Monochrome ==
  /\ Monochrome(White, <<"f","f","f","f","f","f">>)
  /\ Monochrome(Black, <<"0","0","0","0","0","0">>)

\* C8 witness: an all-black image of two samples has returned primary 000000
C8_Witness ==
  /\ logo = Image(<<Black, Black>>)
  /\ Returned
  /\ ret.val.primary = <<"0","0","0","0","0","0">>

\* C9 as stated: dark decoded back from its 8-bit hex to HSV has value exactly
\* 0.12, that is, its largest channel over 255 equals 12/100.
C9_DarkValueExact == Succeeded => 100 * MaxByte(ret.val.dark) = 12 * 255

\* C9 amended: dark decoded back from its 8-bit hex has the largest channel
\* 30 = int(0.12 * 255), a value of 30/255: 0.12 truncated to 8 bits.
C9_DarkValueTruncated == Succeeded => MaxByte(ret.val.dark) = 30

\* C9 witness: the dark of the palette of (30, 90, 220)
C9_Witness ==
  /\ logo = Image(<<MediumBlue>>)
  /\ Returned
  /\ MaxByte(ret.val.dark) = 30
  /\ ret.val.dark # <<"1","e","1","e","1","e">>

\* C10: no request handler hands a file whose name ends in .svg to
\* extract_colors_from_logo.
C10_NoEngineOnSvg == \A i \in DOMAIN calls : Lower(calls[i]) # Svg

\* a deck handler called the engine on the uploaded logo and handed colours to
\* create_pptx
DeckRendered ==
  /\ req.route \in DeckRoutes
  /\ calls # <<>>
  /\ rendered # NoPalette

\* the response echoes the rendered colours, where it carries colours at all
EchoesRendered == resp.colors # NoPalette => resp.colors = rendered

\* C11: in every deck handler, when a raster logo is uploaded, the palette
\* handed to create_pptx, and echoed in the response, is exactly the one
\* extract_colors_from_logo returned for that logo; apply_brand does not
\* replace it.
C11_ForwardedUnmodified ==
  DeckRendered => (rendered = extract_colors_from_logo(req.file).val /\ EchoesRendered)

(***************************************************************************)
(* C14, C15: the sample set of the averages and of the loop.               *)
(***************************************************************************)
\* the positions of the samples that are neither near-white nor near-black
Survivors(pixels) ==
  {i \in DOMAIN pixels :
     /\ ~(pixels[i].r > 240 /\ pixels[i].g > 240 /\ pixels[i].b > 240)
     /\ ~(pixels[i].r < 15 /\ pixels[i].g < 15 /\ pixels[i].b < 15)}

\* C14: on a path that does not fail the sample set is never empty (when the
\* filter removes every sample the unfiltered samples are used), so that
\* the averages never divide by zero and the palette is a derived one
C14_SampleSetNonEmpty ==
  Succeeded =>
    /\ Len(Filtered(logo.pixels)) > 0
    /\ Survivors(logo.pixels) = {} => Filtered(logo.pixels) = logo.pixels
    /\ ret.exc = "none"
    /\ ret.val # DefaultPalette

\* every sample of White, Black is removed: the averages run over both
C14_Witness ==
  /\ logo = Image(<<White, Black>>)
  /\ Returned
  /\ Filtered(logo.pixels) = <<White, Black>>
  /\ ret.val.primary = LowerHex6(RGB(127, 127, 127))

\* the k-th smallest member of a set of positions
KthOf(idx, k) == CHOOSE i \in idx : Cardinality({j \in idx : j <= i}) = k

\* C15: when at least one sample survives, the filter keeps exactly the
\* samples that are neither near-white (all three channels > 240) nor
\* near-black (all three channels < 15), in their order; a sample with only
\* one or two channels beyond a threshold is kept
C15_FilterExact ==
  (Succeeded /\ Survivors(logo.pixels) # {}) =>
    /\ Len(Filtered(logo.pixels)) = Cardinality(Survivors(logo.pixels))
    /\ \A k \in DOMAIN Filtered(logo.pixels) :
         Filtered(logo.pixels)[k] = logo.pixels[KthOf(Survivors(logo.pixels), k)]

\* White is removed from between Red and Blue, which keep their order; Red
\* and Blue each have channels beyond both thresholds
C15_Witness ==
  /\ logo = Image(<<Red, White, Blue>>)
  /\ Returned
  /\ Filtered(logo.pixels) = <<Red, Blue>>
  /\ ret.val.primary = LowerHex6(Red)

(***************************************************************************)
(* C16: the average colour.                                                *)
(***************************************************************************)
ChannelNames == {"r", "g", "b"}

\* C16 as stated: each channel of the average is the mean of that channel
\* over the sample set rounded to the nearest integer (either neighbour at
\* an exact half)
C16_AverageRounded ==
  Succeeded =>
    \A c \in ChannelNames :
      LET n == Len(Filtered(logo.pixels))
          d == n * Channel(Average(Filtered(logo.pixels)), c)
                 - SumChannel(Filtered(logo.pixels), c)
      IN  2 * d <= n /\ 2 * d >= -n

\* C16: each channel of the average is the mean of that channel over the
\* sample set with its fraction dropped, int(sum / len): 166.67 becomes 166
C16_AverageTruncated ==
  Succeeded =>
    \A c \in ChannelNames :
      Channel(Average(Filtered(logo.pixels)), c)
        = SumChannel(Filtered(logo.pixels), c) \div Len(Filtered(logo.pixels))

\* the mean of 100, 200, 200 is 166.67; no grey sample is vivid, and the
\* primary is the average
C16_Witness ==
  /\ logo = Image(<<Grey1, Grey2, Grey2>>)
  /\ Returned
  /\ Average(Filtered(logo.pixels)) = RGB(166, 166, 166)
  /\ ret.val.primary = LowerHex6(RGB(166, 166, 166))

(***************************************************************************)
(* C17: the vivid sample.  Saturation (max - min) / max and value max / 255 *)
(* are compared in exact terms; two different saturations of 8-bit samples  *)
(* differ by more than the error of the float computation.                  *)
(***************************************************************************)
\* the value of the sample exceeds 0.2
AboveFloor(p) == 5 * MaxCh(p) > 255

\* the saturation of p is at most that of q (both with a channel above 0)
SatLeq(p, q) == (MaxCh(p) - MinCh(p)) * MaxCh(q) <= (MaxCh(q) - MinCh(q)) * MaxCh(p)

\* the mean of the samples, each channel with its fraction dropped
FloorMean(f) ==
  RGB(SumChannel(f, "r") \div Len(f), SumChannel(f, "g") \div Len(f),
      SumChannel(f, "b") \div Len(f))

\* primary is the average when no position is eligible, and else a sample at
\* an eligible position whose saturation no eligible sample exceeds
VividAmong(f, eligible) ==
  IF eligible = {} THEN ret.val.primary = LowerHex6(FloorMean(f))
  ELSE \E i \in eligible :
         /\ ret.val.primary = LowerHex6(f[i])
         /\ \A j \in eligible : SatLeq(f[j], f[i])

\* C17 as stated: the vivid sample has the highest saturation among the
\* samples of value above 0.2 and is the average only if there is none; when
\* some sample has value above 0.2, primary is one of the samples
C17_VividAmongBright ==
  Succeeded =>
    VividAmong(Filtered(logo.pixels),
               {i \in DOMAIN Filtered(logo.pixels) : AboveFloor(Filtered(logo.pixels)[i])})

\* C17: the vivid sample has the highest saturation among the samples of
\* value above 0.2 and saturation above 0, and is the average if there is
\* none (grey samples are never selected)
C17_VividAmongColoured ==
  Succeeded =>
    VividAmong(Filtered(logo.pixels),
               {i \in DOMAIN Filtered(logo.pixels) :
                  /\ AboveFloor(Filtered(logo.pixels)[i])
                  /\ MaxCh(Filtered(logo.pixels)[i]) # MinCh(Filtered(logo.pixels)[i])})

\* MediumBlue (saturation 0.86) comes first, Red (saturation 1) is selected
C17_Witness ==
  /\ logo = Image(<<MediumBlue, Red>>)
  /\ Returned
  /\ AboveFloor(MediumBlue)
  /\ ~SatLeq(Red, MediumBlue)
  /\ ret.val.primary = LowerHex6(Red)

(***************************************************************************)
(* C12: concurrent calls.                                                  *)
(***************************************************************************)
\* C12: concurrent calls do not interfere: under every interleaving of the
\* statements of two calls, each call returns the palette the function
\* returns for its file when it runs alone, and no call finds its locals
\* changed by the other
C12_NoInterference ==
  \A t \in Threads :
    /\ thr[t].pc = "done" => thr[t].out = extract_colors_from_logo(thr[t].arg).val
    /\ thr[t].pc \in {"filter", "average", "loop"} =>
         frames[Frame(t)].pixels = thr[t].arg.pixels

\* thread 1 has returned the palette of Red, Blue after sharing the
\* processor with thread 2, which is in its loop over Grey1, Grey2
C12_Witness ==
  /\ thr[1].pc = "done"
  /\ thr[1].met
  /\ thr[1].arg = Image(<<Red, Blue>>)
  /\ thr[1].out.primary = LowerHex6(Red)
  /\ thr[2].pc = "loop"
  /\ thr[2].met
  /\ thr[2].arg = Image(<<Grey1, Grey2>>)
  /\ frames[2].vivid = RGB(150, 150, 150)

(***************************************************************************)
(* C13: the file object of line 181.                                       *)
(***************************************************************************)
\* C13 as stated: the file the call opened is closed on every exit path:
\* when the call has returned, by the normal path or through the except
\* block, no file object of the call is open
C13_HandleClosed ==
  \A t \in Threads : thr[t].pc = "done" => thr[t].fp # "open"

(***************************************************************************)
(* C18: ties on the saturation, which is the float colorsys.rgb_to_hsv     *)
(* returns (two samples of one exact saturation can differ in it).         *)
(***************************************************************************)
\* thread t visits the next sample of its loop in this step
Visits(t) ==
  /\ thr[t].pc = "loop"
  /\ frames[Frame(t)].rest # <<>>
  /\ frames'[Frame(t)].rest = Tail(frames[Frame(t)].rest)

\* the sample has the saturation best_sat and a value above 0.2
TiesWith(p, best_sat) ==
  FEq(PixelHSV(p).s, best_sat) /\ FLt(Lit_0_2, PixelHSV(p).v)

\* the first position of a sample of f that ties with best_sat
FirstTie(f, best_sat) ==
  CHOOSE i \in DOMAIN f :
    /\ TiesWith(f[i], best_sat)
    /\ \A j \in 1..(i - 1) : ~TiesWith(f[j], best_sat)

\* the loop of thread t is over and has selected a sample
Selected(t) ==
  /\ thr[t].pc = "loop"
  /\ frames[Frame(t)].rest = <<>>
  /\ FLt(FZero, frames[Frame(t)].best_sat)

\* C18: when several eligible samples share the maximum saturation the vivid
\* sample is the first of them in sample order: a later sample whose
\* saturation equals best_sat never replaces the current best, and at the
\* end of the loop vivid is the first sample with the saturation best_sat
C18_FirstWins ==
  /\ [][\A t \in Threads :
          (Visits(t) /\ TiesWith(Head(frames[Frame(t)].rest), frames[Frame(t)].best_sat))
            => /\ frames'[Frame(t)].vivid = frames[Frame(t)].vivid
               /\ frames'[Frame(t)].best_sat = frames[Frame(t)].best_sat]_vars
  /\ [](\A t \in Threads :
          Selected(t) =>
            frames[Frame(t)].vivid
              = frames[Frame(t)].filtered[FirstTie(frames[Frame(t)].filtered,
                                                   frames[Frame(t)].best_sat)])

\* the loop over Red, Blue, both of saturation 1.0, is over: vivid is Red
C18_Witness ==
  /\ thr[1].pc = "loop"
  /\ thr[1].arg = Image(<<Red, Blue>>)
  /\ frames[1].rest = <<>>
  /\ TiesWith(Blue, frames[1].best_sat)
  /\ TiesWith(Red, frames[1].best_sat)
  /\ frames[1].vivid = Red

(***************************************************************************)
(* C19, C20: the (h, s, v) of secondary and accent, as floats.             *)
(***************************************************************************)
\* the vivid pixel, read back from primary
PrimaryPixel ==
  RGB(Byte(ret.val.primary, 1), Byte(ret.val.primary, 2), Byte(ret.val.primary, 3))

\* x <= y
FLe(x, y) == ~FLt(y, x)

\* sec is (h, max(0.1, s * 0.3), min(1.0, v * 1.4 + 0.3)) of c = (h, s, v), and
\* secondary is its conversion: the largest channel is int(v * 255)
SecondaryOf(c, sec) ==
  /\ sec.h = c.h
  /\ FLe(Lit_0_1, sec.s) /\ FLe(sec.s, Lit_0_3)
  /\ FLe(Lit_0_3, sec.v) /\ FLe(sec.v, Lit_1)
  /\ FLe(c.v, sec.v)
  /\ (FLt(Lit_0_1, sec.s) => FEq(sec.s, FMul(c.s, Lit_0_3)))
  /\ (FLt(sec.v, Lit_1) => FEq(sec.v, FAdd(FMul(c.v, Lit_1_4), Lit_0_3)))
  /\ MaxByte(ret.val.secondary) = FTrunc(FMul(sec.v, Lit_255))
  /\ MaxByte(ret.val.secondary) >= MaxByte(ret.val.primary)

SecondaryAround(c) == SecondaryOf(c, SecondaryHSV(c))

\* C19: for the primary's (H, S, V), secondary is the conversion of
\* (H, max(0.1, S * 0.3), min(1.0, V * 1.4 + 0.3)): the hue is unchanged, the
\* saturation lies in [0.1, 0.3], the value lies in [0.3, 1.0] and is never
\* below the primary's value
C19_SecondaryRanges == Succeeded => SecondaryAround(PixelHSV(PrimaryPixel))

\* Blue: saturation 1 gives 0.3, value 1 stays 1, the hue stays 2/3
C19_Witness ==
  /\ logo = Image(<<Blue>>)
  /\ Returned
  /\ FEq(SecondaryHSV(PixelHSV(PrimaryPixel)).s, Lit_0_3)
  /\ FEq(SecondaryHSV(PixelHSV(PrimaryPixel)).v, Lit_1)
  /\ FLt(FZero, SecondaryHSV(PixelHSV(PrimaryPixel)).h)
  /\ MaxByte(ret.val.secondary) = 255

\* the non-negative float x as an integer number of units 2^-120
Units(x) == BigShl(x.m, x.e + 120)

\* |a - b| of two integers
BigDist(a, b) == IF BigCmp(a, b) >= 0 THEN BigSub(a, b) ELSE BigSub(b, a)

\* the distance, in units, of ah from h + 0.08 - k
HueGap(h, ah, k) ==
  BigDist(BigAdd(Units(ah), BigShl(BigFromInt(k), 120)),
          BigAdd(Units(h), Units(Lit_0_08)))

\* ah lies in [0, 1) and is within tol units of h + 0.08 on the hue circle
ShiftedBy008(h, ah, tol) ==
  /\ FLe(FZero, ah) /\ FLt(ah, Lit_1)
  /\ \E k \in {0, 1} : BigCmp(HueGap(h, ah, k), tol) <= 0

AccentAround(c, tol) == ShiftedBy008(c.h, AccentHSV(c).h, tol)

\* C20 as stated: the accent hue lies in [0, 1) and differs from the primary
\* hue by exactly 0.08 on the hue circle
C20_HueShiftExact == Succeeded => AccentAround(PixelHSV(PrimaryPixel), <<>>)

\* C20: the accent hue is the float (H + 0.08) % 1.0: it lies in [0, 1) and
\* differs from the primary hue by 0.08 on the hue circle up to the rounding
\* of the addition, at most 2^-53
C20_HueShiftRounded ==
  Succeeded => AccentAround(PixelHSV(PrimaryPixel), BigShl(BigFromInt(1), 120 - 53))

\* the hue of (255, 0, 52) is above 0.92: H + 0.08 wraps past 1.0
C20_Witness ==
  /\ logo = Image(<<RGB(255, 0, 52)>>)
  /\ Returned
  /\ FLt(FSub(Lit_1, Lit_0_08), PixelHSV(PrimaryPixel).h)
  /\ FLt(AccentHSV(PixelHSV(PrimaryPixel)).h, Lit_0_08)
  /\ FLt(FZero, AccentHSV(PixelHSV(PrimaryPixel)).h)

(***************************************************************************)
(* C21, C22: the (h, s, v) of dark, and the ranges of every derivation.    *)
(***************************************************************************)
\* dk is (h, min(0.6, s * 0.8), 0.12) of c = (h, s, v)
DarkOf(c, dk) ==
  /\ dk.h = c.h
  /\ FLe(dk.s, Lit_0_6)
  /\ (FLt(dk.s, Lit_0_6) => FEq(dk.s, FMul(c.s, Lit_0_8)))
  /\ (FLt(Lit_0_6, FMul(c.s, Lit_0_8)) => FEq(dk.s, Lit_0_6))
  /\ dk.v = Lit_0_12

DarkAround(c) == DarkOf(c, DarkHSV(c))

\* C21: for the primary's (H, S, V), dark is the conversion of
\* (H, min(0.6, S * 0.8), 0.12): the hue is the primary's, the saturation
\* never exceeds 0.6 and the value handed to the conversion is the constant
\* 0.12 for every input
C21_DarkTriple == Succeeded => DarkAround(PixelHSV(PrimaryPixel))

\* Red: S * 0.8 = 0.8 is cut to 0.6
C21_Witness ==
  /\ logo = Image(<<Red>>)
  /\ Returned
  /\ FLt(Lit_0_6, FMul(PixelHSV(PrimaryPixel).s, Lit_0_8))
  /\ FEq(DarkHSV(PixelHSV(PrimaryPixel)).s, Lit_0_6)
  /\ MaxByte(ret.val.dark) = 30

\* x lies in [0, 1]
InUnit(x) == FLe(FZero, x) /\ FLe(x, Lit_1)

\* the saturation and the value of the three triples lie in [0, 1]
TriplesInUnit(sec, acc, dk) ==
  /\ InUnit(sec.s) /\ InUnit(sec.v)
  /\ InUnit(acc.s) /\ InUnit(acc.v)
  /\ InUnit(dk.s) /\ InUnit(dk.v)

DerivedInUnit(c) == TriplesInUnit(SecondaryHSV(c), AccentHSV(c), DarkHSV(c))

\* C22: for every primary pixel, pure black, white and grey included, the
\* saturation and the value handed to each of the three hsv_to_rgb
\* conversions (secondary, accent, dark) lie in [0, 1]
C22_ClampedToUnit == Succeeded => DerivedInUnit(PixelHSV(PrimaryPixel))

\* pure white: V * 1.4 + 0.3 = 1.7 and V * 1.1 + 0.1 = 1.2 are cut to 1.0
C22_Witness ==
  /\ logo = Image(<<White>>)
  /\ Returned
  /\ PrimaryPixel = White
  /\ FLt(Lit_1, FAdd(FMul(PixelHSV(PrimaryPixel).v, Lit_1_4), Lit_0_3))
  /\ FEq(SecondaryHSV(PixelHSV(PrimaryPixel)).v, Lit_1)
  /\ FEq(AccentHSV(PixelHSV(PrimaryPixel)).v, Lit_1)

(***************************************************************************)
(* C30: the temp file of preview_colors.                                   *)
(***************************************************************************)
PreviewAnswered == req.route = "preview-colors" /\ resp # NoResp

\* C30: preview_colors leaves no temp file behind: when its response is
\* ready, the file it saved, whether the colours were derived or the engine
\* fell back to the default, is unlinked; without a logo it answers the
\* default colours, has saved no file and has not called the engine
C30_NoTempFileLeft ==
  /\ (PreviewAnswered /\ req.logo) =>
        /\ TempFile(req.suffix, "unlinked") \in temp_files
        /\ TempFile(req.suffix, "present") \notin temp_files
        /\ calls = <<req.suffix>>
        /\ resp.colors = extract_colors_from_logo(req.file).val
  /\ (PreviewAnswered /\ ~req.logo) =>
        /\ \A f \in temp_files : f.owner # "request"
        /\ calls = <<>>
        /\ resp.colors = DefaultPalette

(***************************************************************************)
(* C23..C29: the one-time codes, the registrations and the rate limit.     *)
(***************************************************************************)
\* worker w accepts the code it presented: verify_otp or api_register runs
\* its "UPDATE otp_codes SET used=TRUE WHERE id=%s" after the comparison
Accepts(w) == auth[w].pc = "mark" /\ auth'[w].pc # "mark"

\* worker w reads its otp_rec in verify_otp or api_register
Reads(w) == auth[w].route # "send-otp" /\ auth[w].rec = 0 /\ auth'[w].rec # 0

\* the record of an accepted code is unused and unexpired when it is accepted
\* and used afterwards
AcceptsLive(w) ==
  Accepts(w) =>
    /\ ~otp_codes[auth[w].rec].used
    /\ otp_codes[auth[w].rec].expires_at > now
    /\ otp_codes'[auth[w].rec].used

\* the record a request reads is unused and unexpired when it is read
ReadsLive(w) ==
  Reads(w) =>
    /\ ~otp_codes[auth'[w].rec].used
    /\ otp_codes[auth'[w].rec].expires_at > now

\* the record of an accepted code is unused when it is accepted and used afterwards
AcceptsUnused(w) ==
  Accepts(w) =>
    /\ ~otp_codes[auth[w].rec].used
    /\ otp_codes'[auth[w].rec].used

\* no statement ever sets used back to FALSE or removes a record
UsedForGood ==
  /\ Len(otp_codes') >= Len(otp_codes)
  /\ \A i \in DOMAIN otp_codes : otp_codes[i].used => otp_codes'[i].used

\* C23: with one request at a time, an OTP record authorises at most one
\* operation: a code is accepted only against a record that is unused and
\* unexpired, accepting marks the record used, and a used record stays used,
\* so that no later submission of the same code, and none after expires_at,
\* is accepted
C23_AcceptedOnce == [][UsedForGood /\ \A w \in Workers : AcceptsLive(w)]_vars

\* C23, as the code has it: with one request at a time, a code is accepted
\* only against a record that was unused and unexpired when the request read
\* it and is still unused when it is accepted; accepting marks the record
\* used, and a used record stays used. The clock may pass expires_at between
\* the SELECT and the UPDATE of one request
C23_AcceptedOnceAsRead ==
  [][UsedForGood /\ \A w \in Workers : ReadsLive(w) /\ AcceptsUnused(w)]_vars

\* the only record of the email was accepted by verify_otp, and the same code
\* submitted again, before the record expires, is answered 400
C23_Witness ==
  /\ Len(otp_codes) = 1
  /\ otp_codes[1].used
  /\ otp_codes[1].attempts = 1
  /\ otp_codes[1].expires_at > now
  /\ auth[1].pc = "done"
  /\ auth[1].route \in {"verify-otp", "register"}
  /\ auth[1].email = otp_codes[1].email
  /\ auth[1].purpose = otp_codes[1].purpose
  /\ auth[1].code = otp_codes[1].code
  /\ auth[1].status = 400

\* C24: once three wrong codes were compared against a record, through
\* verify_otp or api_register in any order, no later correct code is accepted
\* against that record
C24_LockedAfterThree ==
  [][\A w \in Workers :
       Accepts(w) => otp_codes[auth[w].rec].wrong < MaxAttempts]_vars

\* worker w writes session['user_id']
SetsSession(w) == auth[w].uid = 0 /\ auth'[w].uid # 0

\* the purpose of the record a handler reads
RecordPurpose(w) == IF auth[w].route = "register" THEN "register" ELSE auth[w].purpose

\* worker w reads its otp_rec: the latest unused unexpired record of the
\* email and purpose of its request
ReadsLatest(w) ==
  Reads(w) =>
    /\ auth'[w].rec \in Live(auth[w].email, RecordPurpose(w))
    /\ \A j \in Live(auth[w].email, RecordPurpose(w)) :
         otp_codes[j].created_at <= otp_codes[auth'[w].rec].created_at

\* the request of worker w presented the code of the record it read, for the
\* email of the user whose id goes into the session
PresentedCode(w) ==
  /\ auth'[w].status = 200
  /\ \/ auth[w].route = "verify-otp" /\ auth[w].purpose = "login"
     \/ /\ auth[w].route = "register"
        /\ users' = Append(users, [email |-> auth[w].email,
                                    is_superadmin |-> auth[w].is_first])
        /\ auth'[w].uid = Len(users')
  /\ auth[w].rec # 0
  /\ otp_codes[auth[w].rec].email = auth[w].email
  /\ otp_codes[auth[w].rec].purpose = RecordPurpose(w)
  /\ otp_codes[auth[w].rec].code = auth[w].code
  /\ otp_codes[auth[w].rec].used
  /\ users'[auth'[w].uid].email = auth[w].email

\* C25: session['user_id'] is set to a user only inside a request that
\* presented a code equal to the code of the latest unused unexpired OTP
\* record of that user's email: a login through verify_otp, or a registration
\* through api_register for the user it has just created; it is set on no
\* failing branch
C25_SessionNeedsCode ==
  [][\A w \in Workers :
       /\ ReadsLatest(w)
       /\ SetsSession(w) => PresentedCode(w)
       /\ auth'[w].uid # 0 => (auth'[w].pc = "done" /\ auth'[w].status = 200)]_vars

\* a login: verify_otp answered 200 and put the id of the registered user
\* into the session
C25_Witness ==
  /\ auth[1].route = "verify-otp"
  /\ auth[1].purpose = "login"
  /\ auth[1].pc = "done"
  /\ auth[1].status = 200
  /\ auth[1].uid # 0
  /\ users[auth[1].uid].email = auth[1].email
  /\ otp_codes[auth[1].rec].code = auth[1].code

\* the records send_otp inserted after record r for the same email and purpose
NewerThan(r) ==
  {j \in DOMAIN otp_codes :
     /\ j > r
     /\ otp_codes[j].email = otp_codes[r].email
     /\ otp_codes[j].purpose = otp_codes[r].purpose}

\* C26: once send_otp has issued a newer code for an email and purpose, no
\* earlier code for that email and purpose is accepted by verify_otp or
\* api_register, however the requests interleave
C26_NoEarlierCode ==
  [][\A w \in Workers : Accepts(w) => NewerThan(auth[w].rec) = {}]_vars

\* no two rows of users have the same email
UniqueEmails ==
  \A i, j \in DOMAIN users : users[i].email = users[j].email => i = j

\* worker w answers a registration whose code was valid
RegistrationEnds(w) ==
  /\ auth[w].route = "register"
  /\ auth[w].pc \in {"mark", "exists", "first", "insert"}
  /\ auth'[w].pc = "done"

\* the answer is the new user and its session, or 409 without a session
CreatedOrConflict(w) ==
  \/ /\ auth'[w].status = 200
     /\ users' = Append(users, [email |-> auth[w].email,
                                 is_superadmin |-> auth[w].is_first])
     /\ auth'[w].uid = Len(users')
  \/ /\ auth'[w].status = 409
     /\ auth'[w].uid = 0
     /\ users' = users
     /\ \E i \in DOMAIN users : users[i].email = auth[w].email

\* C27: however concurrent api_register requests for the same email with a
\* valid code interleave, at most one row of users is created for the email;
\* every other such request is answered 409, sets no session and creates
\* nothing (a request whose code is rejected is answered 400 or 429 before)
C27_OneRowPerEmail ==
  [][/\ UniqueEmails'
     /\ \A w \in Workers : RegistrationEnds(w) => CreatedOrConflict(w)
     /\ \A w \in Workers :
          (auth[w].route = "register" /\ auth[w].pc # "done"
             /\ auth'[w].pc = "done" /\ auth'[w].status # 200)
          => (auth'[w].uid = 0 /\ users' = users)]_vars

\* two registrations of one email read the same valid code and both found
\* users empty; one created the row, the INSERT of the other hit the UNIQUE
\* constraint and was answered 409
C27_Witness ==
  /\ auth[1].route = "register" /\ auth[2].route = "register"
  /\ auth[1].email = auth[2].email
  /\ auth[1].pc = "done" /\ auth[2].pc = "done"
  /\ auth[1].is_first /\ auth[2].is_first
  /\ {auth[1].status, auth[2].status} = {200, 409}
  /\ Len(users) = 1

\* C28: at most one row of users is created with is_superadmin = TRUE, the
\* row of the very first user, however concurrent registrations of different
\* emails against an empty users table interleave
C28_OneSuperadmin ==
  \A i \in DOMAIN users : users[i].is_superadmin => i = 1

\* the records created for an email in the 15 minutes that end at time t
CreatedInWindow(email, t) ==
  {i \in DOMAIN otp_codes :
     /\ otp_codes[i].email = email
     /\ otp_codes[i].created_at > t - WindowTicks
     /\ otp_codes[i].created_at <= t}

\* C29: for any email, send_otp creates at most 5 OTP records within any
\* 15-minute window, whatever their purposes
C29_AtMostFivePerWindow ==
  \A r \in SendRequests : \A t \in 0..now :
    Cardinality(CreatedInWindow(r.email, t)) <= RateLimit

\* a send_otp request that finds 5 records in the last 15 minutes is answered
\* 429 and neither invalidates nor inserts
LimitedLeavesCodes ==
  [][\A w \in Workers :
       (At(w, "send-otp", "start") /\ auth'[w].pc # "start"
          /\ RecentCount(auth[w].email) >= RateLimit)
       => (auth'[w].pc = "done" /\ auth'[w].status = 429
             /\ otp_codes' = otp_codes)]_vars

=============================================================================
